---- MODULE Spec2Model ----
(***************************************************************************)
(* Natural-language-to-SQL pipeline of SQliteAgent:                        *)
(*   app/services/ai_query_processor.py  (Model Gateway, Query Synthesizer) *)
(*   app/services/sqlite_manager.py      (rule screener, engine access)     *)
(*   app/models/ai_service.py            (Safety Combiner, Orchestrator)    *)
(*   app/models/database.py              (registry of database ids)         *)
(* Texts are TLA+ strings; the Python string methods used by the code      *)
(* (upper, lower, strip, startswith, in, split) are defined character by   *)
(* character below.                                                        *)
(***************************************************************************)
EXTENDS Integers, Sequences, FiniteSets, TLC

(***************************************************************************)
(* Bounds of the model.                                                    *)
(***************************************************************************)
NumDatabases == 1
MaxEnvOps == 2
MaxRows == 1
MaxMessages == 2
MaxOps == 4

(***************************************************************************)
(* Optional values: None is <<>>, a present value v is <<v>>.              *)
(***************************************************************************)
None == <<>>
Some(v) == <<v>>

(***************************************************************************)
(* Python str methods.                                                     *)
(***************************************************************************)
UpperChar(c) ==
  CASE c = "a" -> "A" [] c = "b" -> "B" [] c = "c" -> "C" [] c = "d" -> "D"
    [] c = "e" -> "E" [] c = "f" -> "F" [] c = "g" -> "G" [] c = "h" -> "H"
    [] c = "i" -> "I" [] c = "j" -> "J" [] c = "k" -> "K" [] c = "l" -> "L"
    [] c = "m" -> "M" [] c = "n" -> "N" [] c = "o" -> "O" [] c = "p" -> "P"
    [] c = "q" -> "Q" [] c = "r" -> "R" [] c = "s" -> "S" [] c = "t" -> "T"
    [] c = "u" -> "U" [] c = "v" -> "V" [] c = "w" -> "W" [] c = "x" -> "X"
    [] c = "y" -> "Y" [] c = "z" -> "Z" [] OTHER -> c

LowerChar(c) ==
  CASE c = "A" -> "a" [] c = "B" -> "b" [] c = "C" -> "c" [] c = "D" -> "d"
    [] c = "E" -> "e" [] c = "F" -> "f" [] c = "G" -> "g" [] c = "H" -> "h"
    [] c = "I" -> "i" [] c = "J" -> "j" [] c = "K" -> "k" [] c = "L" -> "l"
    [] c = "M" -> "m" [] c = "N" -> "n" [] c = "O" -> "o" [] c = "P" -> "p"
    [] c = "Q" -> "q" [] c = "R" -> "r" [] c = "S" -> "s" [] c = "T" -> "t"
    [] c = "U" -> "u" [] c = "V" -> "v" [] c = "W" -> "w" [] c = "X" -> "x"
    [] c = "Y" -> "y" [] c = "Z" -> "z" [] OTHER -> c

CharAt(s, i) == SubSeq(s, i, i)

\* s.upper() and s.lower() of s[i..j], by halves
RECURSIVE UpperRange(_, _, _)
UpperRange(s, i, j) ==
  IF i > j THEN ""
  ELSE IF i = j THEN UpperChar(CharAt(s, i))
  ELSE UpperRange(s, i, (i + j) \div 2) \o UpperRange(s, (i + j) \div 2 + 1, j)

Upper(s) == UpperRange(s, 1, Len(s))

RECURSIVE LowerRange(_, _, _)
LowerRange(s, i, j) ==
  IF i > j THEN ""
  ELSE IF i = j THEN LowerChar(CharAt(s, i))
  ELSE LowerRange(s, i, (i + j) \div 2) \o LowerRange(s, (i + j) \div 2 + 1, j)

Lower(s) == LowerRange(s, 1, Len(s))

\* sub in s
Contains(s, sub) ==
  \E i \in 1..(Len(s) + 1 - Len(sub)) : SubSeq(s, i, i + Len(sub) - 1) = sub

StartsWith(s, prefix) ==
  /\ Len(prefix) <= Len(s)
  /\ SubSeq(s, 1, Len(prefix)) = prefix

IsSpace(c) == c \in {" ", "\n", "\t", "\r"}

RECURSIVE LStripFrom(_, _)
LStripFrom(s, i) ==
  IF i <= Len(s) /\ IsSpace(CharAt(s, i)) THEN LStripFrom(s, i + 1)
  ELSE SubSeq(s, i, Len(s))

RECURSIVE RStripTo(_, _)
RStripTo(s, j) ==
  IF j >= 1 /\ IsSpace(CharAt(s, j)) THEN RStripTo(s, j - 1)
  ELSE SubSeq(s, 1, j)

Strip(s) == LStripFrom(RStripTo(s, Len(s)), 1)

\* index of the first newline of s at or after start, 0 when there is none
NextNewline(s, start) ==
  LET at == {i \in start..Len(s) : CharAt(s, i) = "\n"}
  IN IF at = {} THEN 0 ELSE CHOOSE i \in at : \A j \in at : i <= j

\* s.split('\n'): the sequence of lines of s
RECURSIVE SplitLinesFrom(_, _)
SplitLinesFrom(s, start) ==
  LET nl == NextNewline(s, start)
  IN IF nl = 0 THEN << SubSeq(s, start, Len(s)) >>
     ELSE << SubSeq(s, start, nl - 1) >> \o SplitLinesFrom(s, nl + 1)

SplitLines(s) == SplitLinesFrom(s, 1)

\* '\n'.join(lines)
RECURSIVE JoinLines(_)
JoinLines(lines) ==
  IF Len(lines) = 0 THEN ""
  ELSE IF Len(lines) = 1 THEN lines[1]
  ELSE lines[1] \o "\n" \o JoinLines(Tail(lines))

(***************************************************************************)
(* Model Gateway: AIQueryProcessor._make_api_request and                   *)
(* _get_mock_response.                                                     *)
(* A message is [role, content].  A reply is the decoded JSON body:        *)
(* shape "chat" carries choices[0].message.content, any other shape is a   *)
(* body without that path.  A remote outcome is what requests.post did:    *)
(*   timeout, network_error : requests.post raised                         *)
(*   status_error           : a response with status_code # 200            *)
(*   bad_body               : status 200, response.json() raised           *)
(*   ok                     : status 200, response.json() = body           *)
(***************************************************************************)
Message(r, c) == [role |-> r, content |-> c]

ChatReply(c) == [shape |-> "chat", content |-> c]

NoChoicesReply == [shape |-> "no_choices", content |-> ""]

Returned(reply, posts, mocked) ==
  [raised |-> FALSE, exc |-> "", reply |-> reply, posts |-> posts,
   mocked |-> mocked]

Raised(exc, posts) ==
  [raised |-> TRUE, exc |-> exc, reply |-> NoChoicesReply, posts |-> posts,
   mocked |-> FALSE]

\* str() of the UnboundLocalError raised by reading the local 'response'
\* before requests.post has assigned it
UnboundResponseError ==
  "cannot access local variable 'response' where it is not associated with a value"

\* str() of KeyError('choices')
KeyErrorChoices == "'choices'"

MockSchemaDocument ==
  "{\"tables\": [{\"name\": \"users\", \"create_sql\": \"CREATE TABLE users (id INTEGER PRIMARY KEY, name TEXT, email TEXT, created_at TEXT);\", \"sample_data\": [\"INSERT INTO users (name, email, created_at) VALUES ('John Doe', 'john@example.com', '2023-01-01');\", \"INSERT INTO users (name, email, created_at) VALUES ('Jane Smith', 'jane@example.com', '2023-01-02');\"]}, {\"name\": \"items\", \"create_sql\": \"CREATE TABLE items (id INTEGER PRIMARY KEY, name TEXT, description TEXT, user_id INTEGER, FOREIGN KEY (user_id) REFERENCES users(id));\", \"sample_data\": [\"INSERT INTO items (name, description, user_id) VALUES ('Item 1', 'Description 1', 1);\", \"INSERT INTO items (name, description, user_id) VALUES ('Item 2', 'Description 2', 2);\"]}], \"indexes\": [\"CREATE INDEX idx_users_email ON users(email);\", \"CREATE INDEX idx_items_user_id ON items(user_id);\"], \"description\": \"A simple database with users and items tables.\"}"

MockBooksSql == "SELECT * FROM books;"

MockUsersSql == "SELECT * FROM users LIMIT 10;"

MockGenericSql == "SELECT * FROM table_name LIMIT 10;"

MockApology ==
  "I'm sorry, I couldn't process your request due to API limitations. Please try again later."

\* the loop of _get_mock_response: content of the first user-role message,
\* "" when there is none
RECURSIVE UserMessageFrom(_, _)
UserMessageFrom(messages, i) ==
  IF i > Len(messages) THEN ""
  ELSE IF messages[i].role = "user" THEN messages[i].content
  ELSE UserMessageFrom(messages, i + 1)

GetMockContent(user_message) ==
  LET um == Lower(user_message) IN
  IF Contains(um, "database schema") \/ Contains(um, "create a database")
  THEN MockSchemaDocument
  ELSE IF Contains(um, "sql") \/ Contains(um, "query")
  THEN IF Contains(um, "books") THEN MockBooksSql
       ELSE IF Contains(um, "users") THEN MockUsersSql
       ELSE MockGenericSql
  ELSE MockApology

GetMockResponse(messages) ==
  ChatReply(GetMockContent(UserMessageFrom(messages, 1)))

\* the except branch of _make_api_request: it logs getattr(response, ...)
\* before returning the mock; 'response' is unbound when requests.post
\* itself raised
ExceptBranch(messages, responseBound) ==
  IF responseBound THEN Returned(GetMockResponse(messages), 1, TRUE)
  ELSE Raised(UnboundResponseError, 1)

\* a gateway without the check of the resolved model name (lines 29-32)
MakeApiRequestNoModelCheck(api_key, cfg_model, model_arg, messages, remote) ==
  IF api_key = "" THEN Returned(GetMockResponse(messages), 0, TRUE)
  ELSE CASE remote.kind \in {"timeout", "network_error"} ->
              ExceptBranch(messages, FALSE)
         [] remote.kind = "status_error" ->
              Returned(GetMockResponse(messages), 1, TRUE)
         [] remote.kind = "bad_body" ->
              ExceptBranch(messages, TRUE)
         [] OTHER -> Returned(remote.body, 1, FALSE)

MakeApiRequest(api_key, cfg_model, model_arg, messages, remote) ==
  LET model == IF model_arg = "" THEN cfg_model ELSE model_arg IN
  IF api_key = "" THEN Returned(GetMockResponse(messages), 0, TRUE)
  ELSE IF model = "" THEN Returned(GetMockResponse(messages), 0, TRUE)
  ELSE CASE remote.kind \in {"timeout", "network_error"} ->
              ExceptBranch(messages, FALSE)
         [] remote.kind = "status_error" ->
              Returned(GetMockResponse(messages), 1, TRUE)
         [] remote.kind = "bad_body" ->
              ExceptBranch(messages, TRUE)
         [] OTHER -> Returned(remote.body, 1, FALSE)

RemoteFailure(kind) == [kind |-> kind, body |-> NoChoicesReply]

RemoteOk(body) == [kind |-> "ok", body |-> body]

RemoteFailureKinds == {"timeout", "network_error", "status_error", "bad_body"}

\* configuration values: OPENROUTER_API_KEY (unset or set), OPENROUTER_MODEL
ApiKeys == {"", "sk-or-key"}

DefaultModel == "google/gemini-2.5-flash-preview-05-20"

ConfigModels == {"", DefaultModel}

ModelArgs == {"", "openai/gpt-4o"}


(***************************************************************************)
(* Rule-based screener: SQLiteManager.validate_query_safety.               *)
(***************************************************************************)
DangerousKeywords ==
  << "DROP", "DELETE", "TRUNCATE", "ALTER", "CREATE", "INSERT", "UPDATE" >>

RuleWarning(keyword) ==
  "Query contains potentially dangerous operation: " \o keyword

RECURSIVE RuleScanFrom(_, _)
RuleScanFrom(query_upper, k) ==
  IF k > Len(DangerousKeywords)
  THEN [safe |-> TRUE, warning |-> None]
  ELSE IF Contains(query_upper, DangerousKeywords[k])
       THEN [safe |-> FALSE, warning |-> Some(RuleWarning(DangerousKeywords[k]))]
       ELSE RuleScanFrom(query_upper, k + 1)

\* a screener that looks at the leading keyword of the statement only
RuleValidateQuerySafetyLeadingKeyword(query) ==
  LET query_upper == Strip(Upper(query))
      hits == {k \in DOMAIN DangerousKeywords :
                 StartsWith(query_upper, DangerousKeywords[k])}
  IN IF hits = {} THEN [safe |-> TRUE, warning |-> None]
     ELSE [safe |-> FALSE,
           warning |-> Some(RuleWarning(DangerousKeywords[
                         CHOOSE k \in hits : \A j \in hits : k <= j]))]

RuleValidateQuerySafety(query) == RuleScanFrom(Strip(Upper(query)), 1)

(***************************************************************************)
(* json.loads on the reply texts of the model.  A decoded value is a       *)
(* record: kind is "dict" or "list"; for a dict, safe is "true", "false",  *)
(* "null" or "absent", risk_level is the string or "absent", and the two   *)
(* lists carry a presence flag.                                            *)
(***************************************************************************)
JsonDict(safe, risk, hasW, w, hasR, r) ==
  [kind |-> "dict", safe |-> safe, risk_level |-> risk,
   hasWarnings |-> hasW, warnings |-> w,
   hasRecommendations |-> hasR, recommendations |-> r]

JsonList == JsonDict("absent", "absent", FALSE, << >>, FALSE, << >>) 

ReplySafeLow ==
  "{\"safe\": true, \"risk_level\": \"low\", \"warnings\": [], \"recommendations\": []}"

ReplyUnsafeHigh ==
  "{\"safe\": false, \"risk_level\": \"high\", \"warnings\": [\"Destructive statement\"], \"recommendations\": [\"Back up first\"]}"

ReplySafeHigh ==
  "{\"safe\": true, \"risk_level\": \"high\", \"warnings\": [\"Full table scan\"], \"recommendations\": [\"Add LIMIT\"]}"

ReplyUnsafeOnly == "{\"safe\": false}"

ReplyRiskOnly == "{\"risk_level\": \"low\"}"

ReplyBadRisk == "{\"safe\": true, \"risk_level\": \"critical\"}"

ReplyNullSafe == "{\"safe\": null, \"risk_level\": \"low\"}"

ReplyJsonList == "[]"

ReplyProse == "This query only reads data and looks safe."

JsonLoads(text) ==
  CASE text = ReplySafeLow ->
         [ok |-> TRUE, value |-> JsonDict("true", "low", TRUE, << >>, TRUE, << >>)]
    [] text = ReplyUnsafeHigh ->
         [ok |-> TRUE,
          value |-> JsonDict("false", "high", TRUE, << "Destructive statement" >>,
                             TRUE, << "Back up first" >>)]
    [] text = ReplySafeHigh ->
         [ok |-> TRUE,
          value |-> JsonDict("true", "high", TRUE, << "Full table scan" >>,
                             TRUE, << "Add LIMIT" >>)]
    [] text = ReplyUnsafeOnly ->
         [ok |-> TRUE, value |-> JsonDict("false", "absent", FALSE, << >>, FALSE, << >>)]
    [] text = ReplyRiskOnly ->
         [ok |-> TRUE, value |-> JsonDict("absent", "low", FALSE, << >>, FALSE, << >>)]
    [] text = ReplyBadRisk ->
         [ok |-> TRUE, value |-> JsonDict("true", "critical", FALSE, << >>, FALSE, << >>)]
    [] text = ReplyNullSafe ->
         [ok |-> TRUE, value |-> JsonDict("null", "low", FALSE, << >>, FALSE, << >>)]
    [] text = MockSchemaDocument ->
         [ok |-> TRUE, value |-> JsonDict("absent", "absent", FALSE, << >>, FALSE, << >>)]
    [] text = ReplyJsonList ->
         [ok |-> TRUE, value |-> [JsonList EXCEPT !.kind = "list"]]
    [] OTHER -> [ok |-> FALSE, value |-> JsonList]

(***************************************************************************)
(* AI safety check: AIQueryProcessor.validate_query_safety.                *)
(***************************************************************************)
SafetySystemPrompt ==
  "You are a SQL security expert. Analyze queries for potential security risks."

SafetyMessages(sql_query) ==
  << Message("system", SafetySystemPrompt),
     Message("user", "Analyze this SQL query: " \o sql_query) >>

\* a fallback that looks for the keywords in the text as written
SafetyFallbackCaseSensitive(sql_query) ==
  JsonDict(IF ~Contains(sql_query, "DROP") /\ ~Contains(sql_query, "DELETE")
           THEN "true" ELSE "false",
           "medium",
           TRUE, << "Could not parse AI safety analysis" >>,
           TRUE, << "Manual review recommended" >>)

\* a fallback that rates the flagged statements high
SafetyFallbackHighRisk(sql_query) ==
  JsonDict(IF ~Contains(Upper(sql_query), "DROP") /\ ~Contains(Upper(sql_query), "DELETE")
           THEN "true" ELSE "false",
           IF ~Contains(Upper(sql_query), "DROP") /\ ~Contains(Upper(sql_query), "DELETE")
           THEN "medium" ELSE "high",
           TRUE, << "Could not parse AI safety analysis" >>,
           TRUE, << "Manual review recommended" >>)

\* lines 409-416
SafetyFallback(sql_query) ==
  JsonDict(IF ~Contains(Upper(sql_query), "DROP") /\ ~Contains(Upper(sql_query), "DELETE")
           THEN "true" ELSE "false",
           "medium",
           TRUE, << "Could not parse AI safety analysis" >>,
           TRUE, << "Manual review recommended" >>)

AiFailure(error) == [success |-> FALSE, error |-> error, analysis |-> JsonList]

AiValidateQuerySafety(sql_query, gw) ==
  IF gw.raised THEN AiFailure(gw.exc)
  ELSE IF gw.reply.shape # "chat" THEN AiFailure(KeyErrorChoices)
  ELSE LET result_text == Strip(gw.reply.content)
           parsed == JsonLoads(result_text)
       IN [success |-> TRUE, error |-> "",
           analysis |-> IF parsed.ok THEN parsed.value
                        ELSE SafetyFallback(sql_query)]

(***************************************************************************)
(* Safety Combiner: AIService.validate_query_safety.                       *)
(***************************************************************************)
RiskLevels == {"low", "medium", "high"}

QuerySafetyAnalysis(safe, risk, warnings, recommendations) ==
  [safe |-> safe, risk_level |-> risk, warnings |-> warnings,
   recommendations |-> recommendations]

\* an except branch that answers like the rule-only fallback
CombinerExceptMedium(msg) ==
  QuerySafetyAnalysis(FALSE, "medium", << "Validation error: " \o msg >>,
                      << "Manual review recommended" >>)

\* the except branch of the combiner
CombinerExcept(msg) ==
  QuerySafetyAnalysis(FALSE, "high", << "Validation error: " \o msg >>,
                      << "Manual review required" >>)

ValidationErrorText == "1 validation error for QuerySafetyAnalysis"

\* a slip that lets the model layer overrule the rule layer
IsSafeModelOnly(basic, a) == a.safe # "false"

\* line 153
IsSafe(basic, a) == basic.safe /\ a.safe # "false"

\* warnings collected model layer first, rule layer last
CombinedWarningsModelFirst(basic, a) ==
  (IF a.hasWarnings THEN a.warnings ELSE << >>)
    \o (IF ~basic.safe THEN << basic.warning[1] >> ELSE << >>)

\* lines 138-147
CombinedWarnings(basic, a) ==
  (IF ~basic.safe THEN << basic.warning[1] >> ELSE << >>)
    \o (IF a.hasWarnings THEN a.warnings ELSE << >>)

CombineSafety(basic, ai) ==
  IF ai.success
  THEN LET a == ai.analysis
           combined_warnings == CombinedWarnings(basic, a)
           combined_recommendations ==
             IF a.hasRecommendations THEN a.recommendations ELSE << >>
           risk == IF a.risk_level = "absent" THEN "medium" ELSE a.risk_level
       IN IF a.kind # "dict"
          THEN CombinerExcept("'list' object has no attribute 'get'")
          ELSE IF risk \notin RiskLevels
          THEN CombinerExcept("'" \o risk \o "' is not a valid RiskLevel")
          ELSE IF basic.safe /\ a.safe = "null"
          THEN CombinerExcept(ValidationErrorText)
          ELSE QuerySafetyAnalysis(IsSafe(basic, a), risk,
                                   combined_warnings, combined_recommendations)
  ELSE IF basic.warning = None
       \* warnings=[None] is rejected by the List[str] field
       THEN CombinerExcept(ValidationErrorText)
       ELSE QuerySafetyAnalysis(basic.safe, "medium", << basic.warning[1] >>,
                                << "Manual review recommended" >>)

ValidateQuerySafety(sql_query, api_key, cfg_model, model_arg, remote) ==
  CombineSafety(RuleValidateQuerySafety(sql_query),
                AiValidateQuerySafety(sql_query,
                  MakeApiRequest(api_key, cfg_model, model_arg,
                                 SafetyMessages(sql_query), remote)))

(***************************************************************************)
(* Query Synthesizer: natural_language_to_sql and explain_query_results.   *)
(* The fence character of markdown code blocks is written ~ in this        *)
(* module (the TLA+ lexer does not accept a backquote inside a string).    *)
(***************************************************************************)
Fence == "~~~"

SqlSystemPrompt ==
  "You are an expert SQL query generator. Convert natural language requests to SQLite queries."

SqlMessages(prompt) ==
  << Message("system", SqlSystemPrompt), Message("user", prompt) >>

\* removal of a leading fence line and a trailing fence line
StripFence(sql_query) ==
  LET lines == SplitLines(sql_query)
      body == IF StartsWith(lines[1], Fence) THEN Tail(lines) ELSE lines
      inner == IF Len(body) > 0 /\ Strip(body[Len(body)]) = Fence
               THEN SubSeq(body, 1, Len(body) - 1) ELSE body
  IN Strip(JoinLines(inner))

NaturalLanguageToSql(prompt, gw) ==
  IF gw.raised THEN [success |-> FALSE, error |-> gw.exc, sql_query |-> ""]
  ELSE IF gw.reply.shape # "chat"
  THEN [success |-> FALSE, error |-> KeyErrorChoices, sql_query |-> ""]
  ELSE LET sql_query == Strip(gw.reply.content)
       IN [success |-> TRUE, error |-> "",
           sql_query |-> IF StartsWith(sql_query, Fence)
                         THEN StripFence(sql_query) ELSE sql_query]

ExplainSystemPrompt ==
  "You are a data analyst. Explain SQL query results in plain English."

ExplainMessages(original_prompt, sql_query) ==
  << Message("system", ExplainSystemPrompt),
     Message("user", "Original Question: " \o original_prompt
                       \o "\nSQL Query: " \o sql_query) >>

\* explain_query_results is called without the model argument reaching the
\* gateway (line 318 passes only the temperature)
ExplainQueryResults(gw) ==
  IF gw.raised THEN [success |-> FALSE, error |-> gw.exc, explanation |-> ""]
  ELSE IF gw.reply.shape # "chat"
  THEN [success |-> FALSE, error |-> KeyErrorChoices, explanation |-> ""]
  ELSE [success |-> TRUE, error |-> "", explanation |-> Strip(gw.reply.content)]

(***************************************************************************)
(* Schema generation: AIQueryProcessor.generate_database_schema, and the   *)
(* creation of a database from its result by                               *)
(* AIService.create_database_from_description through                      *)
(* DatabaseModel.create_database and SQLiteManager.create_database.        *)
(***************************************************************************)
SchemaSystemPrompt ==
  "You are an expert database designer. Create a SQLite database schema based on the natural language description provided."

SchemaMessages(description) ==
  << Message("system", SchemaSystemPrompt),
     Message("user", "Create a database schema for: " \o description) >>

\* s.replace(sub, '')
RECURSIVE RemoveAll(_, _)
RemoveAll(s, sub) ==
  LET at == {i \in 1..(Len(s) + 1 - Len(sub)) :
               SubSeq(s, i, i + Len(sub) - 1) = sub}
      first == CHOOSE i \in at : \A j \in at : i <= j
  IN IF at = {} THEN s
     ELSE SubSeq(s, 1, first - 1)
            \o RemoveAll(SubSeq(s, first + Len(sub), Len(s)), sub)

\* removal of the markdown formatting around a reply
CleanSchemaContent(content) ==
  IF StartsWith(content, Fence \o "json")
  THEN Strip(RemoveAll(RemoveAll(content, Fence \o "json"), Fence))
  ELSE IF StartsWith(content, Fence) THEN Strip(RemoveAll(content, Fence))
  ELSE content

SchemaReplyFenced == Fence \o "json\n" \o MockSchemaDocument \o "\n" \o Fence

SchemaReplyEmptyObject == "{}"

SchemaReplyTruncated == "{\"tables\": ["

SchemaReplyProse == "Here is a schema with users and items."

SchemaReplyFencedProse == Fence \o "\nusers(id, name)\n" \o Fence

\* json.loads(content): a schema document is a dict with the names of its
\* tables, in order; error is str() of the JSONDecodeError
SchemaDict(tbls) == [kind |-> "dict", tables |-> tbls]

SchemaJsonLoads(content) ==
  CASE content = MockSchemaDocument ->
         [ok |-> TRUE, value |-> SchemaDict(<< "users", "items" >>), error |-> ""]
    [] content = SchemaReplyEmptyObject ->
         [ok |-> TRUE, value |-> SchemaDict(<< >>), error |-> ""]
    [] content = ReplyJsonList ->
         [ok |-> TRUE, value |-> [kind |-> "list", tables |-> << >>],
          error |-> ""]
    [] content = SchemaReplyTruncated ->
         [ok |-> FALSE, value |-> SchemaDict(<< >>),
          error |-> "Expecting value: line 1 column 13 (char 12)"]
    [] OTHER ->
         [ok |-> FALSE, value |-> SchemaDict(<< >>),
          error |-> "Expecting value: line 1 column 1 (char 0)"]

SchemaResult(success, schema, error, description) ==
  [success |-> success, schema |-> schema, error |-> error,
   description |-> description]

\* generate_database_schema going on with an empty schema when the reply
\* does not parse
GenerateDatabaseSchemaFallback(description, gw) ==
  IF gw.raised THEN SchemaResult(FALSE, None, gw.exc, description)
  ELSE IF gw.reply.shape # "chat"
  THEN SchemaResult(FALSE, None, KeyErrorChoices, description)
  ELSE LET loaded == SchemaJsonLoads(CleanSchemaContent(Strip(gw.reply.content)))
       IN SchemaResult(TRUE, Some(loaded.value), "", description)

\* generate_database_schema, given what the gateway did
GenerateDatabaseSchema(description, gw) ==
  IF gw.raised THEN SchemaResult(FALSE, None, gw.exc, description)
  ELSE IF gw.reply.shape # "chat"
  THEN SchemaResult(FALSE, None, KeyErrorChoices, description)
  ELSE LET loaded == SchemaJsonLoads(CleanSchemaContent(Strip(gw.reply.content)))
       IN IF ~loaded.ok
          THEN SchemaResult(FALSE, None,
                            "Failed to parse AI response: " \o loaded.error,
                            description)
          ELSE SchemaResult(TRUE, Some(loaded.value), "", description)

UploadFolder == "uploads"

\* os.path.join(upload_folder, database_name)
FilePath(database_name) == UploadFolder \o "/" \o database_name

\* DatabaseModel.create_database: it raises, leaving no file behind, when
\* the file exists already or the schema is not a dict; else the file is
\* created, its path stored and the database registered
CreateDatabase(database_name, schema, fs, reg) ==
  IF database_name \in fs
  THEN [raised |-> TRUE,
        exc |-> "Database file already exists: " \o FilePath(database_name),
        tables |-> << >>, files |-> fs, registry |-> reg]
  ELSE IF schema.kind # "dict"
  THEN [raised |-> TRUE, exc |-> "'list' object has no attribute 'get'",
        tables |-> << >>, files |-> fs, registry |-> reg]
  ELSE [raised |-> FALSE, exc |-> "", tables |-> schema.tables,
        files |-> fs \cup {database_name},
        registry |-> reg \cup {database_name}]

(***************************************************************************)
(* Intent Parser: NaturalLanguageParser.  The regular expressions of       *)
(* _init_patterns and of the extraction methods are matched as Python's re *)
(* matches them: leftmost, greedy, alternatives in the order written,      *)
(* giving back characters only where a later part of the pattern needs     *)
(* them.  A match is [groups, last]: its capturing groups in order ("" for *)
(* an optional group that took no part) and the index of its last          *)
(* character.  limit and suggestions of the result are not modelled;       *)
(* confidence is in hundredths.                                            *)
(***************************************************************************)
WordChars ==
  {"a", "b", "c", "d", "e", "f", "g", "h", "i", "j", "k", "l", "m", "n", "o",
   "p", "q", "r", "s", "t", "u", "v", "w", "x", "y", "z", "0", "1", "2", "3",
   "4", "5", "6", "7", "8", "9", "_"}

\* \w, \s and [\w\s'"] at index i of s; FALSE outside s
IsWordAt(s, i) == i >= 1 /\ i <= Len(s) /\ LowerChar(CharAt(s, i)) \in WordChars

IsSpaceAt(s, i) == i >= 1 /\ i <= Len(s) /\ IsSpace(CharAt(s, i))

IsValueAt(s, i) ==
  \/ IsWordAt(s, i)
  \/ IsSpaceAt(s, i)
  \/ i >= 1 /\ i <= Len(s) /\ CharAt(s, i) \in {"'", "\""}

\* \b between index i - 1 and index i
AtBoundary(s, i) == IsWordAt(s, i - 1) # IsWordAt(s, i)

\* the literal lit at index i
LitAt(s, i, lit) ==
  /\ i >= 1
  /\ i + Len(lit) - 1 <= Len(s)
  /\ SubSeq(s, i, i + Len(lit) - 1) = lit

\* last index of the greedy \w*, \s* and [\w\s'"]* starting at index i
\* (i - 1 when it is empty)
WordEnd(s, i) ==
  i - 1 + Cardinality({j \in i..Len(s) : \A k \in i..j : IsWordAt(s, k)})

SpaceEnd(s, i) ==
  i - 1 + Cardinality({j \in i..Len(s) : \A k \in i..j : IsSpaceAt(s, k)})

ValueEnd(s, i) ==
  i - 1 + Cardinality({j \in i..Len(s) : \A k \in i..j : IsValueAt(s, k)})

\* the first alternative, in the order written, among those that match
FirstOf(hits) == CHOOSE n \in hits : \A m \in hits : n <= m

SeqRange(seq) == {seq[n] : n \in DOMAIN seq}

Match(groups, last) == [groups |-> groups, last |-> last]

\* re.search(r'\b(k1|k2|...)\b', query)
SearchKeyword(query, kws) ==
  \E k \in kws : \E i \in 1..Len(query) :
    /\ AtBoundary(query, i)
    /\ LitAt(query, i, k)
    /\ AtBoundary(query, i + Len(k))

\* r'\b(k1|k2|...)\s+(\w+)' at index i
KeywordWordAt(s, i, kws) ==
  LET hits == {n \in DOMAIN kws :
                 /\ LitAt(s, i, kws[n])
                 /\ IsSpaceAt(s, i + Len(kws[n]))
                 /\ IsWordAt(s, SpaceEnd(s, i + Len(kws[n])) + 1)}
  IN IF ~AtBoundary(s, i) \/ hits = {} THEN None
     ELSE LET kw == kws[FirstOf(hits)]
              start == SpaceEnd(s, i + Len(kw)) + 1
          IN Some(Match(<< kw, SubSeq(s, start, WordEnd(s, start)) >>,
                        WordEnd(s, start)))

\* re.finditer of that pattern from index i on
RECURSIVE KeywordWordFindIter(_, _, _)
KeywordWordFindIter(s, i, kws) ==
  IF i > Len(s) THEN << >>
  ELSE LET m == KeywordWordAt(s, i, kws)
       IN IF m = None THEN KeywordWordFindIter(s, i + 1, kws)
          ELSE m \o KeywordWordFindIter(s, m[1].last + 1, kws)

\* re.search(r'\b(k1|k2|...)\s+\w+', query)
SearchKeywordWord(query, kws) == KeywordWordFindIter(query, 1, kws) # << >>

\* _determine_query_type: the keyword families, in the order they are tried
CountKeywords(query) ==
  \/ SearchKeyword(query, {"count", "number of", "how many", "total"})
  \/ SearchKeyword(query, {"sum", "average", "avg", "max", "min"})

SelectKeywords(query) ==
  \/ SearchKeyword(query, {"show", "display", "list", "get", "find", "select",
                           "retrieve"})
  \/ SearchKeyword(query, {"what", "which", "how many"})
  \/ SearchKeywordWord(query, << "all", "every" >>)

InsertKeywords(query) ==
  \/ SearchKeyword(query, {"add", "insert", "create", "new"})
  \/ SearchKeyword(query, {"record", "entry", "row"})

UpdateKeywords(query) ==
  \/ SearchKeyword(query, {"update", "modify", "change", "edit"})
  \/ SearchKeyword(query, {"set", "to"})

DeleteKeywords(query) == SearchKeyword(query, {"delete", "remove", "drop"})

DetermineQueryType(query) ==
  IF CountKeywords(query) THEN "count"
  ELSE IF SelectKeywords(query) THEN "select"
  ELSE IF InsertKeywords(query) THEN "insert"
  ELSE IF UpdateKeywords(query) THEN "update"
  ELSE IF DeleteKeywords(query) THEN "delete"
  ELSE "unknown"

\* r'\b(in|on)\s+(\w+)\s+(table)?\b' at index i: after the spaces that
\* follow the word, either "table" up to a word boundary or, failing that,
\* a word boundary, which there is one exactly before a word character
InOnAt(s, i) ==
  LET m == KeywordWordAt(s, i, << "in", "on" >>)
  IN IF m = None THEN None
     ELSE LET e == SpaceEnd(s, m[1].last + 1)
          IN IF ~IsSpaceAt(s, m[1].last + 1) \/ ~IsWordAt(s, e + 1) THEN None
             ELSE IF LitAt(s, e + 1, "table") /\ AtBoundary(s, e + 6)
             THEN Some(Match(m[1].groups \o << "table" >>, e + 5))
             ELSE Some(Match(m[1].groups \o << "" >>, e))

RECURSIVE InOnFindIter(_, _)
InOnFindIter(s, i) ==
  IF i > Len(s) THEN << >>
  ELSE LET m == InOnAt(s, i)
       IN IF m = None THEN InOnFindIter(s, i + 1)
          ELSE m \o InOnFindIter(s, m[1].last + 1)

\* the matches of patterns['table_indicators'], pattern by pattern
TableIndicatorMatches(query) ==
  KeywordWordFindIter(query, 1, << "table", "from" >>) \o InOnFindIter(query, 1)

CommonTableWords ==
  {"users", "products", "orders", "customers", "items", "data"}

\* _extract_tables: table_name is match.group(1); list(set(tables)) is the
\* set of the names
ExtractTables(query) ==
  ({m.groups[1] : m \in SeqRange(TableIndicatorMatches(query))}
     \ {"table", "from", "in", "on"})
  \cup {word \in CommonTableWords : Contains(query, word)}

\* r'\b(\w+)\s+(column|field)\b' at index i
WordKeywordAt(s, i, kws) ==
  LET e == WordEnd(s, i)
      p == SpaceEnd(s, e + 1) + 1
      hits == {n \in DOMAIN kws :
                 LitAt(s, p, kws[n]) /\ AtBoundary(s, p + Len(kws[n]))}
  IN IF ~AtBoundary(s, i) \/ ~IsWordAt(s, i) \/ ~IsSpaceAt(s, e + 1)
        \/ hits = {}
     THEN None
     ELSE Some(Match(<< SubSeq(s, i, e), kws[FirstOf(hits)] >>,
                     p + Len(kws[FirstOf(hits)]) - 1))

RECURSIVE WordKeywordFindIter(_, _, _)
WordKeywordFindIter(s, i, kws) ==
  IF i > Len(s) THEN << >>
  ELSE LET m == WordKeywordAt(s, i, kws)
       IN IF m = None THEN WordKeywordFindIter(s, i + 1, kws)
          ELSE m \o WordKeywordFindIter(s, m[1].last + 1, kws)

\* the greedy (?:,\s*\w+)* after a word ending at index e: the words it
\* adds and the index of its last character
RECURSIVE ColumnListFrom(_, _)
ColumnListFrom(s, e) ==
  LET start == SpaceEnd(s, e + 2) + 1
  IN IF LitAt(s, e + 1, ",") /\ IsWordAt(s, start)
     THEN LET rest == ColumnListFrom(s, WordEnd(s, start))
          IN [cols |-> {SubSeq(s, start, WordEnd(s, start))} \cup rest.cols,
              last |-> rest.last]
     ELSE [cols |-> {}, last |-> e]

\* r'\b(show|get|display)\s+(\w+(?:,\s*\w+)*)\b' from index i on: the
\* stripped pieces of every group(2).split(',')
RECURSIVE SelectListColumns(_, _)
SelectListColumns(s, i) ==
  IF i > Len(s) THEN {}
  ELSE LET m == KeywordWordAt(s, i, << "show", "get", "display" >>)
       IN IF m = None THEN SelectListColumns(s, i + 1)
          ELSE LET more == ColumnListFrom(s, m[1].last)
               IN {m[1].groups[2]} \cup more.cols
                    \cup SelectListColumns(s, more.last + 1)

\* _extract_columns
ExtractColumns(query) ==
  LET indicated ==
        KeywordWordFindIter(query, 1, << "column", "field" >>)
          \o WordKeywordFindIter(query, 1, << "column", "field" >>)
  IN ({m.groups[1] : m \in SeqRange(indicated)} \ {"column", "field"})
       \cup SelectListColumns(query, 1)

\* r'\bwhere\s+(\w+)\s*(=|>|<|>=|<=|!=|like)\s*([\w\s\'"]+)' at index i:
\* the longest column name after which an operator and a value follow
WhereOperators == << "=", ">", "<", ">=", "<=", "!=", "like" >>

WhereAt(s, i) ==
  LET c0 == SpaceEnd(s, i + 5) + 1
      wmax == WordEnd(s, c0)
      OpAt(j) == IF j = wmax THEN SpaceEnd(s, j + 1) + 1 ELSE j + 1
      Hits(j) == {n \in DOMAIN WhereOperators :
                    /\ LitAt(s, OpAt(j), WhereOperators[n])
                    /\ IsValueAt(s, OpAt(j) + Len(WhereOperators[n]))}
      ends == {j \in c0..wmax : Hits(j) # {}}
  IN IF ~AtBoundary(s, i) \/ ~LitAt(s, i, "where") \/ ~IsSpaceAt(s, i + 5)
        \/ ends = {}
     THEN None
     ELSE LET j == CHOOSE e \in ends : \A d \in ends : d <= e
              op == WhereOperators[FirstOf(Hits(j))]
              v == OpAt(j) + Len(op)
          IN Some(Match(<< SubSeq(s, c0, j), op,
                           SubSeq(s, v, ValueEnd(s, v)) >>, ValueEnd(s, v)))

RECURSIVE WhereFindIter(_, _)
WhereFindIter(s, i) ==
  IF i > Len(s) THEN << >>
  ELSE LET m == WhereAt(s, i)
       IN IF m = None THEN WhereFindIter(s, i + 1)
          ELSE m \o WhereFindIter(s, m[1].last + 1)

\* r'\b(\w+)\s+(o1|o2|...)\s+([\w\s\'"]+)' at index i
WordOperatorValueAt(s, i, operators) ==
  LET e == WordEnd(s, i)
      p == SpaceEnd(s, e + 1) + 1
      hits == {n \in DOMAIN operators :
                 /\ LitAt(s, p, operators[n])
                 /\ IsSpaceAt(s, p + Len(operators[n]))
                 /\ IsValueAt(s, p + Len(operators[n]) + 1)}
  IN IF ~AtBoundary(s, i) \/ ~IsWordAt(s, i) \/ ~IsSpaceAt(s, e + 1)
        \/ hits = {}
     THEN None
     ELSE LET op == operators[FirstOf(hits)]
              v == p + Len(op)
          IN Some(Match(<< SubSeq(s, i, e), op,
                           SubSeq(s, v, ValueEnd(s, v)) >>, ValueEnd(s, v)))

RECURSIVE WordOperatorValueFindIter(_, _, _)
WordOperatorValueFindIter(s, i, operators) ==
  IF i > Len(s) THEN << >>
  ELSE LET m == WordOperatorValueAt(s, i, operators)
       IN IF m = None THEN WordOperatorValueFindIter(s, i + 1, operators)
          ELSE m \o WordOperatorValueFindIter(s, m[1].last + 1, operators)

\* (is|equals?|contains?) and (greater than|less than|equal to), each
\* optional letter tried first
IsOperators == << "is", "equals", "equal", "contains", "contain" >>

ComparisonOperators == << "greater than", "less than", "equal to" >>

Filter(m) ==
  [column |-> m.groups[1], operator |-> m.groups[2],
   value |-> Strip(m.groups[3])]

\* _extract_filters
ExtractFilters(query) ==
  LET matches ==
        WhereFindIter(query, 1)
          \o WordOperatorValueFindIter(query, 1, IsOperators)
          \o WordOperatorValueFindIter(query, 1, ComparisonOperators)
  IN [n \in DOMAIN matches |-> Filter(matches[n])]

\* r'\b(count|sum|average|avg|max|min)\s+(?:of\s+)?(\w+)' at index i
FunctionOfAt(s, i) ==
  LET m == KeywordWordAt(s, i, << "count", "sum", "average", "avg", "max",
                                  "min" >>)
  IN IF m = None THEN None
     ELSE LET p == m[1].last - Len(m[1].groups[2]) + 1
              start == SpaceEnd(s, p + 2) + 1
          IN IF m[1].groups[2] = "of" /\ IsSpaceAt(s, p + 2)
                /\ IsWordAt(s, start)
             THEN Some(Match(<< m[1].groups[1],
                                SubSeq(s, start, WordEnd(s, start)) >>,
                             WordEnd(s, start)))
             ELSE m

RECURSIVE FunctionOfFindIter(_, _)
FunctionOfFindIter(s, i) ==
  IF i > Len(s) THEN << >>
  ELSE LET m == FunctionOfAt(s, i)
       IN IF m = None THEN FunctionOfFindIter(s, i + 1)
          ELSE m \o FunctionOfFindIter(s, m[1].last + 1)

\* r'\bhow many\s+(\w+)': its one group is the word
RECURSIVE HowManyFindIter(_, _)
HowManyFindIter(s, i) ==
  IF i > Len(s) THEN << >>
  ELSE LET m == KeywordWordAt(s, i, << "how many" >>)
       IN IF m = None THEN HowManyFindIter(s, i + 1)
          ELSE << Match(<< m[1].groups[2] >>, m[1].last) >>
                 \o HowManyFindIter(s, m[1].last + 1)

\* the loop body of _extract_aggregations: func is match.group(1)
Aggregation(m) ==
  LET func == Lower(m.groups[1])
  IN [function |-> IF func \in {"total", "number of", "how many"} THEN "count"
                   ELSE IF func = "average" THEN "avg" ELSE func,
      column |-> IF Len(m.groups) > 1 THEN m.groups[2] ELSE "*"]

\* _extract_aggregations
ExtractAggregations(query) ==
  LET matches ==
        FunctionOfFindIter(query, 1)
          \o KeywordWordFindIter(query, 1, << "total", "number of" >>)
          \o HowManyFindIter(query, 1)
  IN [n \in DOMAIN matches |-> Aggregation(matches[n])]

\* r'\b<keyword>\s+by\s+(\w+)\s*(asc|desc|ascending|descending)?' at index
\* i: the second group is the first alternative that is a prefix of what
\* follows the spaces
SortByAt(s, i, keyword) ==
  LET b == SpaceEnd(s, i + Len(keyword)) + 1
      start == SpaceEnd(s, b + 2) + 1
      p == SpaceEnd(s, WordEnd(s, start) + 1) + 1
  IN IF ~AtBoundary(s, i) \/ ~LitAt(s, i, keyword)
        \/ ~IsSpaceAt(s, i + Len(keyword)) \/ ~LitAt(s, b, "by")
        \/ ~IsSpaceAt(s, b + 2) \/ ~IsWordAt(s, start)
     THEN None
     ELSE Some(Match(<< SubSeq(s, start, WordEnd(s, start)),
                        IF LitAt(s, p, "asc") THEN "asc"
                        ELSE IF LitAt(s, p, "desc") THEN "desc" ELSE "" >>,
                     WordEnd(s, start)))

\* re.search of that pattern: the leftmost match
SearchSortBy(query, keyword) ==
  LET at == {i \in 1..Len(query) : SortByAt(query, i, keyword) # None}
  IN IF at = {} THEN None ELSE SortByAt(query, FirstOf(at), keyword)

\* _extract_sorting
ExtractSorting(query) ==
  LET order == SearchSortBy(query, "order")
      sort == SearchSortBy(query, "sort")
      m == IF order # None THEN order ELSE sort
  IN IF m = None THEN None
     ELSE Some([column |-> m[1].groups[1],
                direction |-> IF m[1].groups[2] \in {"desc", "descending"}
                              THEN "DESC" ELSE "ASC"])

\* _calculate_confidence with the score lowered where sorting is found
CalculateConfidenceSortPenalty(parsed_result) ==
  LET score ==
        (IF parsed_result.query_type # "unknown" THEN 30 ELSE 0)
        + (IF parsed_result.tables # {} THEN 20 ELSE 0)
        + (IF parsed_result.columns # {} THEN 20 ELSE 0)
        + (IF parsed_result.filters # << >> THEN 15 ELSE 0)
        + (IF parsed_result.aggregations # << >> THEN 10 ELSE 0)
        - (IF parsed_result.sorting # None THEN 5 ELSE 0)
  IN IF score < 100 THEN score ELSE 100

\* _calculate_confidence, in hundredths
CalculateConfidence(parsed_result) ==
  LET score ==
        (IF parsed_result.query_type # "unknown" THEN 30 ELSE 0)
        + (IF parsed_result.tables # {} THEN 20 ELSE 0)
        + (IF parsed_result.columns # {} THEN 20 ELSE 0)
        + (IF parsed_result.filters # << >> THEN 15 ELSE 0)
        + (IF parsed_result.aggregations # << >> THEN 10 ELSE 0)
        + (IF parsed_result.sorting # None THEN 5 ELSE 0)
  IN IF score < 100 THEN score ELSE 100

\* parse_query
ParseQuery(query) ==
  LET query_lower == Strip(Lower(query))
      result ==
        [original_query |-> query,
         query_type |-> DetermineQueryType(query_lower),
         tables |-> ExtractTables(query_lower),
         columns |-> ExtractColumns(query_lower),
         filters |-> ExtractFilters(query_lower),
         aggregations |-> ExtractAggregations(query_lower),
         sorting |-> ExtractSorting(query_lower),
         confidence |-> 0]
  IN [result EXCEPT !.confidence = CalculateConfidence(result)]

(***************************************************************************)
(* Database engine (sqlite3) as seen by SQLiteManager.execute_query.  The  *)
(* engine accepts the statements listed here, compared case-insensitively; *)
(* any other text is a syntax error.                                       *)
(***************************************************************************)
TableNames == {"books", "users"}

Statement(verb, table) == [valid |-> TRUE, verb |-> verb, table |-> table]

InvalidStatement == [valid |-> FALSE, verb |-> "", table |-> ""]

SqlStatement(query) ==
  LET q == Upper(Strip(query)) IN
  CASE q = "SELECT * FROM BOOKS;" -> Statement("select", "books")
    [] q = "SELECT * FROM USERS LIMIT 10;" -> Statement("select", "users")
    [] q = "SELECT * FROM TABLE_NAME LIMIT 10;" -> Statement("select", "table_name")
    [] q = "SELECT CREATED_AT FROM USERS;" -> Statement("select", "users")
    [] q = "DROP TABLE USERS;" -> Statement("drop", "users")
    [] q = "DELETE FROM USERS;" -> Statement("delete", "users")
    [] OTHER -> InvalidStatement

QueryResult(success, data, row_count, rows_affected, error) ==
  [success |-> success, data |-> data, row_count |-> row_count,
   rows_affected |-> rows_affected, error |-> error]

\* the rows of a result set are identified by their number
Rows(n) == [i \in 1..n |-> i]

\* cursor.rowcount after the statement: the rows a DELETE changed, -1 for a
\* statement that is not INSERT, UPDATE, DELETE or REPLACE
Rowcount(st, n) == IF st.verb = "delete" THEN n ELSE -1

\* SQLiteManager.execute_query on an opened connection: the statement
\* raises inside the engine (except branch: rollback, success=False) or
\* succeeds with n rows found / affected
EngineExecuteQuery(query, tables, n) ==
  LET st == SqlStatement(query) IN
  IF ~st.valid
  THEN QueryResult(FALSE, None, None, None, Some("near \"" \o query \o "\": syntax error"))
  ELSE IF st.table \notin tables
  THEN QueryResult(FALSE, None, None, None, Some("no such table: " \o st.table))
  ELSE IF StartsWith(Upper(Strip(query)), "SELECT")
  THEN QueryResult(TRUE, Some(Rows(n)), Some(n), None, None)
  ELSE QueryResult(TRUE, None, None, Some(Rowcount(st, n)), None)

\* an engine that loses the table a statement has read or written
EngineTablesAfterConsuming(query, tables) ==
  LET st == SqlStatement(query) IN
  IF st.valid /\ st.table \in tables THEN tables \ {st.table} ELSE tables

\* the tables of the database file after the statement
EngineTablesAfter(query, tables) ==
  LET st == SqlStatement(query) IN
  IF st.valid /\ st.verb = "drop" /\ st.table \in tables
  THEN tables \ {st.table} ELSE tables

(***************************************************************************)
(* SQLiteManager.execute_query statement by statement.  The database file  *)
(* holds tables and, for each, a number of rows.  A connection sees the    *)
(* file through its own view: a DELETE opens a transaction and changes the *)
(* view only, commit writes the view to the file, rollback and close       *)
(* discard it.  A DROP is not run inside a transaction (the sqlite3 module *)
(* opens one before INSERT, UPDATE, DELETE and REPLACE only) and reaches   *)
(* the file at once.  fault is what the engine does to the call: nothing,  *)
(* an error raised while the statement runs, or one raised by commit.      *)
(***************************************************************************)
DiskOf(tables, n) == [tables |-> tables, rows |-> [t \in tables |-> n]]

\* the file content once the statement has taken effect
DiskAfter(st, d) ==
  IF ~st.valid \/ st.table \notin d.tables THEN d
  ELSE IF st.verb = "drop"
  THEN [tables |-> d.tables \ {st.table},
        rows |-> [t \in d.tables \ {st.table} |-> d.rows[t]]]
  ELSE IF st.verb = "delete"
  THEN [d EXCEPT !.rows = [@ EXCEPT ![st.table] = 0]]
  ELSE d

Faults == {"none", "statement", "commit"}

\* str() of the exception cursor.execute raises, None when it returns
ExecuteError(query, d, fault) ==
  LET st == SqlStatement(query) IN
  IF ~st.valid THEN Some("near \"" \o query \o "\": syntax error")
  ELSE IF st.table \notin d.tables THEN Some("no such table: " \o st.table)
  ELSE IF fault = "statement" THEN Some("database is locked")
  ELSE None

\* sqlite3.connect and conn.cursor()
Connect(d) ==
  [open |-> TRUE, in_transaction |-> FALSE, view |-> d, commits |-> 0,
   rollbacks |-> 0, discarded |-> FALSE]

NewCursor == [rowcount |-> -1, rows |-> << >>]

\* conn.commit() leaving the file as it is
CommitKeepingFile(c, d) == d

\* the file after conn.commit()
Commit(c, d) == IF c.in_transaction THEN c.view ELSE d

\* what execute_query returns or raises
EqReturned(result) == [raised |-> FALSE, exc |-> "", result |-> result]

EqRaised(exc) ==
  [raised |-> TRUE, exc |-> exc,
   result |-> QueryResult(FALSE, None, None, None, None)]

(***************************************************************************)
(* Pipeline Orchestrator: AIService.process_natural_language_query.        *)
(***************************************************************************)
AIQueryResponse(success, sql, prompt, parsed, result, explanation, error, time) ==
  [success |-> success, sql_query |-> sql, original_prompt |-> prompt,
   parsed_info |-> parsed, query_result |-> result,
   explanation |-> explanation, error |-> error, processing_time |-> time]

\* lines 35-39
DatabaseNotFoundResponse(prompt) ==
  AIQueryResponse(FALSE, None, prompt, None, None, None,
                  Some("Database not found"), None)

\* lines 50-54
SchemaFailureResponse(prompt) ==
  AIQueryResponse(FALSE, None, prompt, None, None, None,
                  Some("Could not retrieve database schema"), None)

\* lines 64-69
SynthesisFailureResponse(prompt, parsed, error) ==
  AIQueryResponse(FALSE, None, prompt, parsed, None, None, Some(error), None)

\* lines 76-82
RejectedResponse(prompt, sql, parsed) ==
  AIQueryResponse(FALSE, sql, prompt, parsed, None, None,
                  Some("Query rejected due to high security risk"), None)

\* a final response whose success flag follows the execution result
SuccessResponseFromResult(prompt, sql, parsed, result, explanation, elapsed) ==
  AIQueryResponse(result[1].success, sql, prompt, parsed, result, explanation,
                  IF result[1].success THEN None ELSE result[1].error,
                  Some(elapsed))

\* lines 101-109
SuccessResponse(prompt, sql, parsed, result, explanation, elapsed) ==
  AIQueryResponse(TRUE, sql, prompt, parsed, result, explanation, None,
                  Some(elapsed))

\* lines 111-123
ExceptionResponse(prompt, e, elapsed) ==
  AIQueryResponse(FALSE, None, prompt, None, None, None, Some(e), Some(elapsed))

\* a rejection test that ignores the risk level
RejectsAnyUnsafe(safety_check) == ~safety_check.safe

\* line 75
Rejects(safety_check) ==
  ~safety_check.safe /\ safety_check.risk_level = "high"

\* an explanation stage that runs whenever it was requested
WantsExplanationOnRequest(include_explanation, structured_result) ==
  include_explanation

\* line 92
WantsExplanation(include_explanation, structured_result) ==
  /\ include_explanation
  /\ structured_result.success
  /\ structured_result.data # None
  /\ Len(structured_result.data[1]) > 0

(***************************************************************************)
(* Inputs of the model.                                                    *)
(***************************************************************************)
DbName(i) == "db" \o ToString(i) \o ".sqlite"

DbIds == {DbName(i) : i \in 1..NumDatabases}

Prompts ==
  {"show all records in books", "sql query for all books", "remove every user"}

\* contents a live model returns for the SQL request
SqlReplyTexts ==
  {"SELECT * FROM books;", "drop table users;", "SELECT created_at FROM users;",
   "~~~sql\nDELETE FROM users;\n~~~", "please rephrase"}

\* contents a live model returns for the safety request
SafetyReplyTexts ==
  {ReplySafeLow, ReplyUnsafeHigh, ReplySafeHigh, ReplyUnsafeOnly, ReplyRiskOnly,
   ReplyBadRisk, ReplyNullSafe, ReplyJsonList, ReplyProse}

ExplainReplyTexts == {"The table holds one record."}

RemotesFor(texts) ==
  {RemoteFailure(k) : k \in {"timeout", "status_error"}}
    \cup {RemoteOk(ChatReply(t)) : t \in texts}
    \cup {RemoteOk(NoChoicesReply)}

(***************************************************************************)
(* State.                                                                  *)
(*   registry   keys of DatabaseModel._shared_registry                     *)
(*   paths      keys of the database_paths of the service's SQLiteManager  *)
(*   tables     tables of each database file                               *)
(*   api_key    OPENROUTER_API_KEY of the configuration                    *)
(*   now        the wall clock                                             *)
(*   pc ... response   one run of process_natural_language_query          *)
(*   stages     the stages the run has entered, with their outcome         *)
(*   gateway_calls, posts, execute_calls   calls made by the run           *)
(*   env_ops    operations of other requests on the registry               *)
(*   gw_in, gw_out   a call of _make_api_request on its own                *)
(*   sc_in, sc_out   a call of AIService.validate_query_safety on its own  *)
(*   rule_out, ai_out   what the rule layer and the model layer returned   *)
(*                      to that call                                       *)
(*   mgr_paths  keys of database_paths of each DatabaseModel's manager     *)
(*   lock       holder of each manager's _lock                             *)
(*   thr        the request threads: operation in progress and position    *)
(*   last_access   the latest access to a registry and whether the         *)
(*                 accessing thread held the lock                          *)
(*   live       identifiers added by load/create and not closed since      *)
(*   overlapped    some operation began while another was in progress      *)
(*   ops        operations begun by the threads                            *)
(*   pq_in, pq_out   two texts and what parse_query returned for them      *)
(*   eq_in, eq_pc, eq_out   a call of SQLiteManager.execute_query on its   *)
(*              own: its arguments, its position, what it returned         *)
(*   eq_exc     the exception that call is handling                        *)
(*   conn, cursor   the connection and the cursor of that call             *)
(*   disk       what the database file of that call holds                  *)
(*   cd_in, cd_out   a call of create_database_from_description on its own *)
(*   schema_out what generate_database_schema returned to that call        *)
(*   files      the database files of the upload folder                    *)
(*   safety_reply   what the gateway returned to the run's safety request  *)
(*   prev       the previous run of the pipeline: its inputs, the tables   *)
(*              it left and its response                                   *)
(*   row_count  rows a SELECT finds in each database file                  *)
(***************************************************************************)
VARIABLES registry, paths, tables, api_key, now, pc, prompt, database_id,
          include_explanation, model, start_time, parsed_query, sql_query,
          safety_check, query_result, explanation, response, stages,
          gateway_calls, posts, execute_calls, checked_sql, safety_reply, executed_sql,
          env_ops, gw_in, gw_out, sc_in, sc_out, rule_out, ai_out,
          mgr_paths, lock, thr, last_access, live, overlapped, ops,
          prev, row_count, pq_in, pq_out, eq_in, eq_pc, eq_exc, eq_out, conn,
          cursor, disk, cd_in, cd_out, schema_out, files

vars ==
  << registry, paths, tables, api_key, now, pc, prompt, database_id,
     include_explanation, model, start_time, parsed_query, sql_query,
     safety_check, query_result, explanation, response, stages,
     gateway_calls, posts, execute_calls, checked_sql, safety_reply, executed_sql,
     env_ops, gw_in, gw_out, sc_in, sc_out, rule_out, ai_out,
     mgr_paths, lock, thr, last_access, live, overlapped, ops,
     prev, row_count, pq_in, pq_out, eq_in, eq_pc, eq_exc, eq_out, conn,
     cursor, disk, cd_in, cd_out, schema_out, files >>

dbVars == << registry, paths, tables >>

inputVars == << prompt, database_id, include_explanation, model, start_time >>

regVars == << mgr_paths, lock, thr, last_access, live, overlapped, ops >>

rerunVars == << prev, row_count >>

parserVars == << pq_in, pq_out >>

engineVars == << eq_in, eq_pc, eq_exc, eq_out, conn, cursor, disk >>

schemaVars == << cd_in, cd_out, schema_out, files >>

callVars == << parserVars, engineVars, schemaVars >>

fnVars ==
  << gw_in, gw_out, sc_in, sc_out, rule_out, ai_out, regVars, rerunVars,
     callVars >>

Stage(name, ok) == [stage |-> name, ok |-> ok]

\* request threads of the process (async_mode='threading')
Threads == {"t1", "t2"}

\* DatabaseModel instances: the one of routes/database.py and routes/ai.py,
\* and one of the others (routes/tables.py, websocket/handlers.py, app.py)
Instances == {"routes", "tables"}

ThreadIdle ==
  [pc |-> "idle", op |-> "", inst |-> "", id |-> "", snapshot |-> {},
   ran |-> "", result |-> ""]

\* no earlier run; the row count matters only where two runs are compared
RerunIdle ==
  /\ prev = None
  /\ row_count = [d \in DbIds |-> 0]

\* no call of the parser, of execute_query or of
\* create_database_from_description on its own
ParserIdle ==
  /\ pq_in = None
  /\ pq_out = << >>

EngineIdle ==
  /\ eq_in = None
  /\ eq_pc = "idle"
  /\ eq_exc = None
  /\ eq_out = None
  /\ conn = None
  /\ cursor = None
  /\ disk = None

SchemaIdle ==
  /\ cd_in = None
  /\ cd_out = None
  /\ schema_out = None
  /\ files = {}

CallsIdle == ParserIdle /\ EngineIdle /\ SchemaIdle

\* the threads before their first operation
RegistryIdle ==
  /\ mgr_paths = [i \in Instances |-> {}]
  /\ lock = [i \in Instances |-> None]
  /\ thr = [t \in Threads |-> ThreadIdle]
  /\ last_access = None
  /\ live = {}
  /\ overlapped = FALSE
  /\ ops = 0

\* the run of the pipeline before its first statement
RunIdle ==
  /\ pc = "idle"
  /\ prompt = ""
  /\ database_id = ""
  /\ include_explanation = FALSE
  /\ model = ""
  /\ start_time = 0
  /\ parsed_query = None
  /\ sql_query = None
  /\ safety_check = None
  /\ query_result = None
  /\ explanation = None
  /\ response = None
  /\ stages = << >>
  /\ gateway_calls = 0
  /\ posts = 0
  /\ execute_calls = 0
  /\ checked_sql = None
  /\ safety_reply = None
  /\ executed_sql = << >>

Init ==
  /\ registry = {}
  /\ paths = {}
  /\ tables \in [DbIds -> {{"users"}, {"books", "users"}}]
  /\ api_key \in ApiKeys
  /\ now = 0
  /\ RunIdle
  /\ env_ops = 0
  /\ gw_in = None
  /\ gw_out = None
  /\ sc_in = None
  /\ sc_out = None
  /\ rule_out = None
  /\ ai_out = None
  /\ RegistryIdle
  /\ RerunIdle
  /\ CallsIdle

(***************************************************************************)
(* Other requests of the process.  Every DatabaseModel instance shares the *)
(* registry and owns a SQLiteManager: a request is served either by the    *)
(* instance the service uses (same, as routes/ai.py and routes/database.py)*)
(* or by another one (as routes/tables.py, app.py, websocket/handlers.py). *)
(***************************************************************************)
\* DatabaseModel.load_database, lines 22-57
EnvLoadDatabase(d, same) ==
  /\ env_ops < MaxEnvOps
  /\ registry' = registry \cup {d}
  /\ paths' = IF same THEN paths \cup {d} ELSE paths
  /\ env_ops' = env_ops + 1
  /\ now' = IF pc = "idle" THEN now + 1 ELSE now
  /\ UNCHANGED << tables, api_key, pc, inputVars, parsed_query, sql_query,
                  safety_check, query_result, explanation, response, stages,
                  gateway_calls, posts, execute_calls, checked_sql, safety_reply,
                  executed_sql, fnVars >>

\* DatabaseModel.close_database, lines 330-342: the registry entry goes only
\* when the instance's own manager had the database loaded
EnvCloseDatabase(d, same) ==
  /\ env_ops < MaxEnvOps
  /\ IF same THEN d \in paths ELSE d \in registry
  /\ registry' = registry \ {d}
  /\ paths' = IF same THEN paths \ {d} ELSE paths
  /\ env_ops' = env_ops + 1
  /\ now' = IF pc = "idle" THEN now + 1 ELSE now
  /\ UNCHANGED << tables, api_key, pc, inputVars, parsed_query, sql_query,
                  safety_check, query_result, explanation, response, stages,
                  gateway_calls, posts, execute_calls, checked_sql, safety_reply,
                  executed_sql, fnVars >>

(***************************************************************************)
(* The run, one action per stage.                                          *)
(***************************************************************************)
\* a run without the except clause: the exception leaves the function
RaiseToCaller(e) ==
  /\ response' = None
  /\ pc' = "raised"

\* the exit through the except clause, lines 111-123
RaiseToHandler(e) ==
  /\ response' = Some(ExceptionResponse(prompt, e, (now + 1) - start_time))
  /\ pc' = "returned"

Return(r) ==
  /\ response' = Some(r)
  /\ pc' = "returned"

\* line 25
Start(p, d, e, m) ==
  /\ pc = "idle"
  /\ prompt' = p
  /\ database_id' = d
  /\ include_explanation' = e
  /\ model' = m
  /\ start_time' = now
  /\ pc' = "validate_db"
  /\ UNCHANGED << dbVars, api_key, now, parsed_query, sql_query, safety_check,
                  query_result, explanation, response, stages, gateway_calls,
                  posts, execute_calls, checked_sql, safety_reply, executed_sql, env_ops,
                  fnVars >>

\* a validation that logs the missing database and goes on
ValidateDbNoReturn ==
  /\ pc = "validate_db"
  /\ registry' = registry \cup paths
  /\ now' = now + 1
  /\ stages' = Append(stages, Stage("VALIDATE_DB", database_id \in registry'))
  /\ pc' = "parse"
  /\ UNCHANGED << paths, tables, api_key, inputVars, parsed_query, sql_query,
                  safety_check, query_result, explanation, response,
                  gateway_calls, posts, execute_calls, checked_sql, safety_reply,
                  executed_sql, env_ops, fnVars >>

\* lines 32-39; get_database_info refreshes the registry from the manager's
\* paths (get_database_list) before the lookup
ValidateDb ==
  /\ pc = "validate_db"
  /\ registry' = registry \cup paths
  /\ now' = now + 1
  /\ IF database_id \in registry'
     THEN /\ stages' = Append(stages, Stage("VALIDATE_DB", TRUE))
          /\ pc' = "parse"
          /\ UNCHANGED response
     ELSE /\ stages' = Append(stages, Stage("VALIDATE_DB", FALSE))
          /\ Return(DatabaseNotFoundResponse(prompt))
  /\ UNCHANGED << paths, tables, api_key, inputVars, parsed_query, sql_query,
                  safety_check, query_result, explanation, gateway_calls,
                  posts, execute_calls, checked_sql, safety_reply, executed_sql, env_ops,
                  fnVars >>

\* lines 41-43
Parse ==
  /\ pc = "parse"
  /\ parsed_query' = Some(ParseQuery(prompt))
  /\ stages' = Append(stages, Stage("PARSE", TRUE))
  /\ now' = now + 1
  /\ pc' = "schema_fetch"
  /\ UNCHANGED << dbVars, api_key, inputVars, sql_query, safety_check,
                  query_result, explanation, response, gateway_calls, posts,
                  execute_calls, checked_sql, safety_reply, executed_sql, env_ops, fnVars >>

\* DatabaseModel.get_database_schema, lines 127-170: the dict it returns
StructuredSchema(d, tbls) ==
  [database_id |-> d, tables |-> tbls, total_tables |-> Cardinality(tbls),
   total_size |-> 0]

NotLoadedError(d) == "Database " \o d \o " not loaded"

FileNotFoundError(d) == "Database file not found: " \o d

IntrospectionError == "database disk image is malformed"

\* the outcome of the "ensure loaded" prefix shared by get_database_schema
\* (lines 130-137) and execute_query (lines 175-182): the error raised, or
\* None when the database is loaded in the manager afterwards
EnsureLoadedError(d, reg, pths, file_exists) ==
  IF d \notin reg THEN Some(NotLoadedError(d))
  ELSE IF d \notin pths /\ ~file_exists THEN Some(FileNotFoundError(d))
  ELSE None

\* lines 45-56
SchemaFetch(file_exists, engine_ok) ==
  /\ pc = "schema_fetch"
  /\ now' = now + 1
  /\ LET err == EnsureLoadedError(database_id, registry, paths, file_exists)
         schema == StructuredSchema(database_id, tables[database_id])
     IN IF err # None
        THEN /\ RaiseToHandler(err[1])
             /\ stages' = Append(stages, Stage("SCHEMA_FETCH", FALSE))
             /\ UNCHANGED paths
        ELSE /\ paths' = paths \cup {database_id}
             /\ IF ~engine_ok
                THEN /\ RaiseToHandler(IntrospectionError)
                     /\ stages' = Append(stages, Stage("SCHEMA_FETCH", FALSE))
                ELSE IF DOMAIN schema = {}
                THEN /\ Return(SchemaFailureResponse(prompt))
                     /\ stages' = Append(stages, Stage("SCHEMA_FETCH", FALSE))
                ELSE /\ pc' = "synthesize_sql"
                     /\ stages' = Append(stages, Stage("SCHEMA_FETCH", TRUE))
                     /\ UNCHANGED response
  /\ UNCHANGED << registry, tables, api_key, inputVars, parsed_query, sql_query,
                  safety_check, query_result, explanation, gateway_calls,
                  posts, execute_calls, checked_sql, safety_reply, executed_sql, env_ops,
                  fnVars >>

\* lines 58-71
SynthesizeSql(remote) ==
  /\ pc = "synthesize_sql"
  /\ now' = now + 1
  /\ LET gw == MakeApiRequest(api_key, DefaultModel, model, SqlMessages(prompt), remote)
         ai_result == NaturalLanguageToSql(prompt, gw)
     IN /\ gateway_calls' = gateway_calls + 1
        /\ posts' = posts + gw.posts
        /\ IF ~ai_result.success
           THEN /\ Return(SynthesisFailureResponse(prompt, parsed_query, ai_result.error))
                /\ stages' = Append(stages, Stage("SYNTHESIZE_SQL", FALSE))
                /\ UNCHANGED sql_query
           ELSE /\ sql_query' = Some(ai_result.sql_query)
                /\ stages' = Append(stages, Stage("SYNTHESIZE_SQL", TRUE))
                /\ pc' = "safety_check"
                /\ UNCHANGED response
  /\ UNCHANGED << dbVars, api_key, inputVars, parsed_query, safety_check,
                  query_result, explanation, execute_calls, checked_sql, safety_reply,
                  executed_sql, env_ops, fnVars >>

\* lines 73-82
SafetyCheck(remote) ==
  /\ pc = "safety_check"
  /\ now' = now + 1
  /\ LET sql == sql_query[1]
         gw == MakeApiRequest(api_key, DefaultModel, model, SafetyMessages(sql), remote)
         verdict == CombineSafety(RuleValidateQuerySafety(sql),
                                  AiValidateQuerySafety(sql, gw))
     IN /\ gateway_calls' = gateway_calls + 1
        /\ posts' = posts + gw.posts
        /\ checked_sql' = Some(sql)
        /\ safety_reply' = Some(gw)
        /\ safety_check' = Some(verdict)
        /\ IF Rejects(verdict)
           THEN /\ Return(RejectedResponse(prompt, sql_query, parsed_query))
                /\ stages' = Append(stages, Stage("SAFETY_CHECK", FALSE))
           ELSE /\ pc' = "execute"
                /\ stages' = Append(stages, Stage("SAFETY_CHECK", TRUE))
                /\ UNCHANGED response
  /\ UNCHANGED << dbVars, api_key, inputVars, parsed_query, sql_query,
                  query_result, explanation, execute_calls, executed_sql,
                  env_ops, fnVars >>

\* a call that normalises the statement on its way to the engine
SqlForEngineUpper(sql) == Upper(sql[1])

\* line 85: the sql_query of line 71 is passed as it is
SqlForEngine(sql) == sql[1]

\* lines 84-92; DatabaseModel.execute_query, lines 172-199
Execute(file_exists, n) ==
  /\ pc = "execute"
  /\ now' = now + 1
  /\ execute_calls' = execute_calls + 1
  /\ LET sql == SqlForEngine(sql_query)
         err == EnsureLoadedError(database_id, registry, paths, file_exists)
         result == EngineExecuteQuery(sql, tables[database_id], n)
     IN IF err # None
        THEN /\ RaiseToHandler(err[1])
             /\ stages' = Append(stages, Stage("EXECUTE", FALSE))
             /\ UNCHANGED << paths, tables, query_result, executed_sql >>
        ELSE /\ paths' = paths \cup {database_id}
             /\ executed_sql' = Append(executed_sql, sql)
             /\ tables' = [tables EXCEPT ![database_id] = EngineTablesAfter(sql, @)]
             /\ query_result' = Some(result)
             /\ stages' = Append(stages, Stage("EXECUTE", result.success))
             /\ pc' = IF WantsExplanation(include_explanation, result)
                      THEN "explain" ELSE "respond"
             /\ UNCHANGED response
  /\ UNCHANGED << registry, api_key, inputVars, parsed_query, sql_query,
                  safety_check, explanation, gateway_calls, posts, checked_sql, safety_reply,
                  env_ops, fnVars >>

\* lines 93-97
Explain(remote) ==
  /\ pc = "explain"
  /\ now' = now + 1
  /\ LET gw == MakeApiRequest(api_key, DefaultModel, "",
                              ExplainMessages(prompt, sql_query[1]), remote)
         explanation_result == ExplainQueryResults(gw)
     IN /\ gateway_calls' = gateway_calls + 1
        /\ posts' = posts + gw.posts
        /\ explanation' = IF explanation_result.success
                          THEN Some(explanation_result.explanation) ELSE None
        /\ stages' = Append(stages, Stage("EXPLAIN", explanation_result.success))
  /\ pc' = "respond"
  /\ UNCHANGED << dbVars, api_key, inputVars, parsed_query, sql_query,
                  safety_check, query_result, response, execute_calls,
                  checked_sql, safety_reply, executed_sql, env_ops, fnVars >>

\* lines 99-109
Respond ==
  /\ pc = "respond"
  /\ now' = now + 1
  /\ stages' = Append(stages, Stage("DONE", TRUE))
  /\ Return(SuccessResponse(prompt, sql_query, parsed_query, query_result,
                            explanation, (now + 1) - start_time))
  /\ UNCHANGED << dbVars, api_key, inputVars, parsed_query, sql_query,
                  safety_check, query_result, explanation, gateway_calls,
                  posts, execute_calls, checked_sql, safety_reply, executed_sql, env_ops,
                  fnVars >>

Next ==
  \/ \E d \in DbIds, same \in BOOLEAN : EnvLoadDatabase(d, same)
  \/ \E d \in DbIds, same \in BOOLEAN : EnvCloseDatabase(d, same)
  \/ \E p \in Prompts, d \in DbIds, e \in BOOLEAN, m \in ModelArgs : Start(p, d, e, m)
  \/ ValidateDb
  \/ Parse
  \/ \E f \in BOOLEAN, ok \in BOOLEAN : SchemaFetch(f, ok)
  \/ \E r \in RemotesFor(SqlReplyTexts) : SynthesizeSql(r)
  \/ \E r \in RemotesFor(SafetyReplyTexts) : SafetyCheck(r)
  \/ \E f \in BOOLEAN, n \in 0..MaxRows : Execute(f, n)
  \/ \E r \in RemotesFor(ExplainReplyTexts) : Explain(r)
  \/ Respond

Spec == Init /\ [][Next]_vars

(***************************************************************************)
(* Two runs of the pipeline, one after the other, on the mock path (no API *)
(* key), with the database registered and loaded, its file present and     *)
(* readable, and nothing else running.                                     *)
(***************************************************************************)
PreviousRun ==
  [prompt |-> prompt, database_id |-> database_id, tables |-> tables,
   response |-> response[1]]

\* the first call has returned; the next call of
\* process_natural_language_query starts from fresh locals
RunAgain ==
  /\ pc = "returned"
  /\ prev = None
  /\ prev' = Some(PreviousRun)
  /\ pc' = "idle"
  /\ prompt' = ""
  /\ database_id' = ""
  /\ include_explanation' = FALSE
  /\ model' = ""
  /\ start_time' = 0
  /\ parsed_query' = None
  /\ sql_query' = None
  /\ safety_check' = None
  /\ query_result' = None
  /\ explanation' = None
  /\ response' = None
  /\ stages' = << >>
  /\ gateway_calls' = 0
  /\ posts' = 0
  /\ execute_calls' = 0
  /\ checked_sql' = None
  /\ safety_reply' = None
  /\ executed_sql' = << >>
  /\ UNCHANGED << dbVars, api_key, now, env_ops, gw_in, gw_out, sc_in, sc_out,
                  rule_out, ai_out, regVars, row_count, callVars >>

InitRerun ==
  /\ registry = DbIds
  /\ paths = DbIds
  /\ tables \in [DbIds -> {{"users"}, {"books", "users"}}]
  /\ api_key = ""
  /\ now = 0
  /\ RunIdle
  /\ env_ops = 0
  /\ gw_in = None
  /\ gw_out = None
  /\ sc_in = None
  /\ sc_out = None
  /\ rule_out = None
  /\ ai_out = None
  /\ RegistryIdle
  /\ prev = None
  /\ row_count \in [DbIds -> 0..MaxRows]
  /\ CallsIdle

NextRerun ==
  \/ \E p \in Prompts, d \in DbIds, e \in BOOLEAN, m \in ModelArgs : Start(p, d, e, m)
  \/ ValidateDb
  \/ Parse
  \/ SchemaFetch(TRUE, TRUE)
  \/ \E r \in RemotesFor(SqlReplyTexts) : SynthesizeSql(r)
  \/ \E r \in RemotesFor(SafetyReplyTexts) : SafetyCheck(r)
  \/ Execute(TRUE, row_count[database_id])
  \/ \E r \in RemotesFor(ExplainReplyTexts) : Explain(r)
  \/ Respond
  \/ RunAgain

SpecRerun == InitRerun /\ [][NextRerun]_vars

(***************************************************************************)
(* The Model Gateway on its own: Init draws the arguments, the             *)
(* configuration and the behaviour of the remote service; GatewayCall      *)
(* applies _make_api_request.                                              *)
(***************************************************************************)
GatewayContents ==
  {"", "show all records in books", "sql for users",
   "Create a database schema for: a shop"}

GatewayMessages ==
  {Message(r, c) : r \in {"system", "user"}, c \in GatewayContents}

GatewayMessageLists ==
  UNION {[1..n -> GatewayMessages] : n \in 0..MaxMessages}

GatewayRemotes ==
  {RemoteFailure(k) : k \in RemoteFailureKinds}
    \cup {RemoteOk(ChatReply("SELECT 1;")), RemoteOk(NoChoicesReply)}

GatewayInput(k, c, m, msgs, r) ==
  [api_key |-> k, cfg_model |-> c, model |-> m, messages |-> msgs, remote |-> r]

\* state of the other specifications' variables while a function is
\* exercised on its own
PipelineUnused ==
  /\ registry = {}
  /\ paths = {}
  /\ tables = [d \in DbIds |-> {"users"}]
  /\ api_key = ""
  /\ now = 0
  /\ RunIdle
  /\ env_ops = 0

InitGateway ==
  /\ PipelineUnused
  /\ gw_in \in {Some(GatewayInput(k, c, m, msgs, r)) :
                  k \in ApiKeys, c \in ConfigModels, m \in ModelArgs,
                  msgs \in GatewayMessageLists, r \in GatewayRemotes}
  /\ gw_out = None
  /\ sc_in = None
  /\ sc_out = None
  /\ rule_out = None
  /\ ai_out = None
  /\ RegistryIdle
  /\ RerunIdle
  /\ CallsIdle

GatewayCall ==
  /\ gw_in # None
  /\ gw_out = None
  /\ gw_out' = Some(MakeApiRequest(gw_in[1].api_key, gw_in[1].cfg_model,
                                   gw_in[1].model, gw_in[1].messages,
                                   gw_in[1].remote))
  /\ UNCHANGED << dbVars, api_key, now, pc, inputVars, parsed_query, sql_query,
                  safety_check, query_result, explanation, response, stages,
                  gateway_calls, posts, execute_calls, checked_sql, safety_reply,
                  executed_sql, env_ops, gw_in, sc_in, sc_out, rule_out,
                  ai_out, regVars, rerunVars, callVars >>

NextGateway == GatewayCall

SpecGateway == InitGateway /\ [][NextGateway]_vars

(***************************************************************************)
(* The Safety Combiner on its own: Init draws the SQL text, the            *)
(* configuration and the behaviour of the remote service; SafetyCall       *)
(* applies AIService.validate_query_safety.                                *)
(***************************************************************************)
\* every spelling of s in upper and lower case letters
RECURSIVE CaseVariantsRange(_, _, _)
CaseVariantsRange(s, i, j) ==
  IF i > j THEN {""}
  ELSE {c \o rest : c \in {LowerChar(CharAt(s, i)), UpperChar(CharAt(s, i))},
                    rest \in CaseVariantsRange(s, i + 1, j)}

CaseVariants(s) == CaseVariantsRange(s, 1, Len(s))

SafetyInput(sql, drop_table, k, r) ==
  [sql_query |-> sql, drop_table |-> drop_table, api_key |-> k, remote |-> r]

\* texts with the substring DROP TABLE in some letter case
DropTableTexts == {v \o " users;" : v \in CaseVariants("drop table")}

OtherSqlTexts ==
  {"SELECT * FROM books;", "SELECT created_at FROM users;",
   "delete from users", "Update users set name = 'x'", "",
   "SELECT 1; -- create a database", "UPDATE users SET dropped = 1",
   "  truncate table users", "SELECT altered, inserted FROM log"}

SafetyRemotes ==
  RemotesFor(SafetyReplyTexts) \cup {RemoteOk(ChatReply(MockSchemaDocument))}

InitSafety ==
  /\ PipelineUnused
  /\ gw_in = None
  /\ gw_out = None
  /\ sc_in \in {Some(SafetyInput(t, TRUE, k, r)) :
                  t \in DropTableTexts, k \in ApiKeys, r \in SafetyRemotes}
             \cup {Some(SafetyInput(t, FALSE, k, r)) :
                  t \in OtherSqlTexts, k \in ApiKeys, r \in SafetyRemotes}
  /\ sc_out = None
  /\ rule_out = None
  /\ ai_out = None
  /\ RegistryIdle
  /\ RerunIdle
  /\ CallsIdle

SafetyCall ==
  /\ sc_in # None
  /\ sc_out = None
  /\ sc_out' = Some(ValidateQuerySafety(sc_in[1].sql_query, sc_in[1].api_key,
                                        DefaultModel, "", sc_in[1].remote))
  /\ rule_out' = Some(RuleValidateQuerySafety(sc_in[1].sql_query))
  /\ ai_out' = Some(AiValidateQuerySafety(sc_in[1].sql_query,
                       MakeApiRequest(sc_in[1].api_key, DefaultModel, "",
                                      SafetyMessages(sc_in[1].sql_query),
                                      sc_in[1].remote)))
  /\ UNCHANGED << dbVars, api_key, now, pc, inputVars, parsed_query, sql_query,
                  safety_check, query_result, explanation, response, stages,
                  gateway_calls, posts, execute_calls, checked_sql, safety_reply,
                  executed_sql, env_ops, gw_in, gw_out, sc_in, regVars,
                  rerunVars, callVars >>

NextSafety == SafetyCall

SpecSafety == InitSafety /\ [][NextSafety]_vars

(***************************************************************************)
(* The registry under concurrent requests.  Each thread runs one operation *)
(* of a DatabaseModel instance at a time, one action per statement that    *)
(* touches DatabaseModel._shared_registry (shared by all instances) or the *)
(* database_paths of the instance's SQLiteManager (guarded by that         *)
(* manager's _lock where the code takes it).  The database files exist.    *)
(***************************************************************************)
RegistryOps ==
  {"load", "create", "close", "list", "info", "execute", "schema"}

FirstPc(op) ==
  CASE op \in {"load", "create"} -> "store_path"
    [] op = "close" -> "close_paths"
    [] op \in {"list", "info"} -> "list_lock"
    [] OTHER -> "check_registered"

Access(t, target, mode) ==
  Some([thread |-> t, target |-> target, mode |-> mode,
        held |-> lock[thr[t].inst] = Some(t)])

\* the thread's operation returns or raises
Finished(t, result) ==
  [thr[t] EXCEPT !.pc = "idle", !.result = result]

otherVars ==
  << paths, tables, api_key, now, pc, inputVars, parsed_query, sql_query,
     safety_check, query_result, explanation, response, stages, gateway_calls,
     posts, execute_calls, checked_sql, safety_reply, executed_sql, env_ops, gw_in, gw_out,
     sc_in, sc_out, rule_out, ai_out, rerunVars, callVars >>

\* a request handler calls a method of its DatabaseModel
Begin(t, op, i, d) ==
  /\ thr[t].pc = "idle"
  /\ ops < MaxOps
  /\ ops' = ops + 1
  /\ thr' = [thr EXCEPT ![t] = [ThreadIdle EXCEPT !.pc = FirstPc(op),
                                   !.op = op, !.inst = i, !.id = d]]
  /\ overlapped' = (overlapped \/ \E u \in Threads \ {t} : thr[u].pc # "idle")
  /\ UNCHANGED << registry, mgr_paths, lock, last_access, live, otherVars >>

\* SQLiteManager.load_database lines 45-46, create_database lines 99-100:
\* with self._lock: self.database_paths[db_id] = file_path
StorePath(t) ==
  /\ thr[t].pc = "store_path"
  /\ lock[thr[t].inst] = None
  /\ mgr_paths' = [mgr_paths EXCEPT ![thr[t].inst] = @ \cup {thr[t].id}]
  /\ last_access' = [Access(t, "database_paths", "write") EXCEPT ![1].held = TRUE]
  /\ thr' = [thr EXCEPT ![t].pc =
               CASE thr[t].op \in {"load", "create"} -> "register"
                 [] thr[t].op = "execute" -> "touch"
                 [] OTHER -> "use"]
  /\ UNCHANGED << registry, lock, live, overlapped, ops, otherVars >>

\* DatabaseModel.load_database lines 47-50, create_database lines 81-84
Register(t) ==
  /\ thr[t].pc = "register"
  /\ registry' = registry \cup {thr[t].id}
  /\ last_access' = Access(t, "_shared_registry", "write")
  /\ live' = live \cup {thr[t].id}
  /\ thr' = [thr EXCEPT ![t] = Finished(t, "ok")]
  /\ UNCHANGED << mgr_paths, lock, overlapped, ops, otherVars >>

\* SQLiteManager.close_database lines 231-237, called at database.py:333
ClosePaths(t) ==
  /\ thr[t].pc = "close_paths"
  /\ lock[thr[t].inst] = None
  /\ mgr_paths' = [mgr_paths EXCEPT ![thr[t].inst] = @ \ {thr[t].id}]
  /\ last_access' = [Access(t, "database_paths", "write") EXCEPT ![1].held = TRUE]
  /\ IF thr[t].id \in mgr_paths[thr[t].inst]
     THEN /\ thr' = [thr EXCEPT ![t].pc = "close_check"]
          /\ UNCHANGED live
     ELSE /\ thr' = [thr EXCEPT ![t] = Finished(t, "false")]
          /\ live' = live \ {thr[t].id}
  /\ UNCHANGED << registry, lock, overlapped, ops, otherVars >>

\* DatabaseModel.close_database line 335: database_id in registry
CloseCheck(t) ==
  /\ thr[t].pc = "close_check"
  /\ last_access' = Access(t, "_shared_registry", "read")
  /\ IF thr[t].id \in registry
     THEN /\ thr' = [thr EXCEPT ![t].pc = "close_del"]
          /\ UNCHANGED live
     ELSE /\ thr' = [thr EXCEPT ![t] = Finished(t, "true")]
          /\ live' = live \ {thr[t].id}
  /\ UNCHANGED << registry, mgr_paths, lock, overlapped, ops, otherVars >>

\* DatabaseModel.close_database line 336: del registry[database_id]; a
\* KeyError is caught at line 340 and the method returns False
CloseDel(t) ==
  /\ thr[t].pc = "close_del"
  /\ last_access' = Access(t, "_shared_registry", "write")
  /\ registry' = registry \ {thr[t].id}
  /\ thr' = [thr EXCEPT ![t] =
               Finished(t, IF thr[t].id \in registry THEN "true" ELSE "false")]
  /\ live' = live \ {thr[t].id}
  /\ UNCHANGED << mgr_paths, lock, overlapped, ops, otherVars >>

\* SQLiteManager.list_databases line 123: with self._lock
ListLock(t) ==
  /\ thr[t].pc = "list_lock"
  /\ lock[thr[t].inst] = None
  /\ lock' = [lock EXCEPT ![thr[t].inst] = Some(t)]
  /\ thr' = [thr EXCEPT ![t].pc = "list_iterate"]
  /\ UNCHANGED << registry, mgr_paths, last_access, live, overlapped, ops,
                  otherVars >>

\* SQLiteManager.list_databases lines 124-143: the loop over
\* database_paths.items(), then the lock is released
ListIterate(t) ==
  /\ thr[t].pc = "list_iterate"
  /\ last_access' = Access(t, "database_paths", "iterate")
  /\ lock' = [lock EXCEPT ![thr[t].inst] = None]
  /\ thr' = [thr EXCEPT ![t].pc = "list_merge",
                        ![t].snapshot = mgr_paths[thr[t].inst]]
  /\ UNCHANGED << registry, mgr_paths, live, overlapped, ops, otherVars >>

\* DatabaseModel.get_database_list lines 99-121: every listed id that is not
\* in the registry is added to it
ListMerge(t) ==
  /\ thr[t].pc = "list_merge"
  /\ registry' = registry \cup thr[t].snapshot
  /\ last_access' = IF thr[t].snapshot = {} THEN last_access
                    ELSE Access(t, "_shared_registry", "write")
  /\ thr' = [thr EXCEPT ![t] = IF thr[t].op = "list" THEN Finished(t, "ok")
                                 ELSE [thr[t] EXCEPT !.pc = "info_lookup"]]
  /\ UNCHANGED << mgr_paths, lock, live, overlapped, ops, otherVars >>

\* DatabaseModel.get_database_info lines 384-386
InfoLookup(t) ==
  /\ thr[t].pc = "info_lookup"
  /\ last_access' = Access(t, "_shared_registry", "read")
  /\ thr' = [thr EXCEPT ![t] =
               Finished(t, IF thr[t].id \in registry THEN "found" ELSE "none")]
  /\ UNCHANGED << registry, mgr_paths, lock, live, overlapped, ops, otherVars >>

\* execute_query line 175, get_database_schema line 130
CheckRegistered(t) ==
  /\ thr[t].pc = "check_registered"
  /\ last_access' = Access(t, "_shared_registry", "read")
  /\ thr' = [thr EXCEPT ![t] = IF thr[t].id \in registry
                                 THEN [thr[t] EXCEPT !.pc = "read_info"]
                                 ELSE Finished(t, "not_loaded")]
  /\ UNCHANGED << registry, mgr_paths, lock, live, overlapped, ops, otherVars >>

\* execute_query line 179, get_database_schema line 134:
\* registry[database_id]['info']
ReadInfo(t) ==
  /\ thr[t].pc = "read_info"
  /\ last_access' = Access(t, "_shared_registry", "read")
  /\ thr' = [thr EXCEPT ![t] = IF thr[t].id \in registry
                                 THEN [thr[t] EXCEPT !.pc = "check_paths"]
                                 ELSE Finished(t, "key_error")]
  /\ UNCHANGED << registry, mgr_paths, lock, live, overlapped, ops, otherVars >>

\* execute_query line 180, get_database_schema line 135:
\* database_id not in self.sqlite_manager.database_paths
CheckPaths(t) ==
  /\ thr[t].pc = "check_paths"
  /\ last_access' = Access(t, "database_paths", "read")
  /\ thr' = [thr EXCEPT ![t].pc =
               IF thr[t].id \notin mgr_paths[thr[t].inst] THEN "store_path"
               ELSE IF thr[t].op = "execute" THEN "touch" ELSE "use"]
  /\ UNCHANGED << registry, mgr_paths, lock, live, overlapped, ops, otherVars >>

\* execute_query line 185, get_database_schema line 146:
\* registry[database_id]['info']
Touch(t) ==
  /\ thr[t].pc = "touch"
  /\ last_access' = Access(t, "_shared_registry", "read")
  /\ thr' = [thr EXCEPT ![t] =
               IF thr[t].id \notin registry THEN Finished(t, "key_error")
               ELSE IF thr[t].op = "execute" THEN [thr[t] EXCEPT !.pc = "use"]
               ELSE Finished(t, thr[t].ran)]
  /\ UNCHANGED << registry, mgr_paths, lock, live, overlapped, ops, otherVars >>

\* SQLiteManager.execute_query line 187, get_database_schema line 147:
\* _get_connection (lines 19-23) looks the path up and the statement runs
Use(t) ==
  /\ thr[t].pc = "use"
  /\ last_access' = Access(t, "database_paths", "read")
  /\ LET ran == IF thr[t].id \in registry THEN "ran" ELSE "ran_closed" IN
     thr' = [thr EXCEPT ![t] =
               IF thr[t].id \notin mgr_paths[thr[t].inst]
               THEN Finished(t, "not_loaded")
               ELSE IF thr[t].op = "execute"
               THEN [Finished(t, ran) EXCEPT !.ran = ran]
               ELSE [thr[t] EXCEPT !.pc = "touch", !.ran = ran]]
  /\ UNCHANGED << registry, mgr_paths, lock, live, overlapped, ops, otherVars >>

InitRegistry ==
  /\ PipelineUnused
  /\ gw_in = None
  /\ gw_out = None
  /\ sc_in = None
  /\ sc_out = None
  /\ rule_out = None
  /\ ai_out = None
  /\ RegistryIdle
  /\ RerunIdle
  /\ CallsIdle

NextRegistry ==
  \/ \E t \in Threads, op \in RegistryOps, i \in Instances, d \in DbIds :
       Begin(t, op, i, d)
  \/ \E t \in Threads : StorePath(t)
  \/ \E t \in Threads : Register(t)
  \/ \E t \in Threads : ClosePaths(t)
  \/ \E t \in Threads : CloseCheck(t)
  \/ \E t \in Threads : CloseDel(t)
  \/ \E t \in Threads : ListLock(t)
  \/ \E t \in Threads : ListIterate(t)
  \/ \E t \in Threads : ListMerge(t)
  \/ \E t \in Threads : InfoLookup(t)
  \/ \E t \in Threads : CheckRegistered(t)
  \/ \E t \in Threads : ReadInfo(t)
  \/ \E t \in Threads : CheckPaths(t)
  \/ \E t \in Threads : Touch(t)
  \/ \E t \in Threads : Use(t)

SpecRegistry == InitRegistry /\ [][NextRegistry]_vars

(***************************************************************************)
(* The Intent Parser alone: parse_query applied to two texts, one after    *)
(* the other.                                                              *)
(***************************************************************************)
ParserTexts ==
  {"delete record from items where id = 5", "how many orders",
   "how many orders are there", "show all users", "show users",
   "show users order by name", "list from books", "find rows in books table",
   "select title from books where id = 5", "get name, email from users",
   "order by name", "age is 5 order by name", "price greater than 10",
   "users", "show", "name column", "total sales", "count of users",
   "average price", "remove item", "update users set name to bob",
   "Add a new entry", "hello there"}

InitParser ==
  /\ PipelineUnused
  /\ gw_in = None
  /\ gw_out = None
  /\ sc_in = None
  /\ sc_out = None
  /\ rule_out = None
  /\ ai_out = None
  /\ RegistryIdle
  /\ RerunIdle
  /\ pq_in \in {Some(<< a, b >>) : a \in ParserTexts, b \in ParserTexts}
  /\ pq_out = << >>
  /\ EngineIdle
  /\ SchemaIdle

ParseNext ==
  /\ pq_in # None
  /\ Len(pq_out) < 2
  /\ pq_out' = Append(pq_out, ParseQuery(pq_in[1][Len(pq_out) + 1]))
  /\ UNCHANGED << dbVars, api_key, now, pc, inputVars, parsed_query, sql_query,
                  safety_check, query_result, explanation, response, stages,
                  gateway_calls, posts, execute_calls, checked_sql,
                  safety_reply, executed_sql, env_ops, gw_in, gw_out, sc_in,
                  sc_out, rule_out, ai_out, regVars, rerunVars, pq_in,
                  engineVars, schemaVars >>

NextParser == ParseNext

SpecParser == InitParser /\ [][NextParser]_vars

(***************************************************************************)
(* SQLiteManager.execute_query alone, one statement of the method at a     *)
(* time.                                                                   *)
(***************************************************************************)
EngineQueries ==
  {"SELECT * FROM books;", "SELECT * FROM users LIMIT 10;",
   "  select created_at from users;", "DROP TABLE users;",
   "DELETE FROM users;", "delete from users;", "please rephrase"}

EngineInput(query, loaded, tbls, n, fault) ==
  [query |-> query, loaded |-> loaded, tables |-> tbls, rows |-> n,
   fault |-> fault]

InitEngine ==
  /\ PipelineUnused
  /\ gw_in = None
  /\ gw_out = None
  /\ sc_in = None
  /\ sc_out = None
  /\ rule_out = None
  /\ ai_out = None
  /\ RegistryIdle
  /\ RerunIdle
  /\ ParserIdle
  /\ eq_in \in {Some(EngineInput(q, l, t, n, f)) :
                  q \in EngineQueries, l \in BOOLEAN,
                  t \in {{"users"}, {"books", "users"}}, n \in 0..MaxRows,
                  f \in Faults}
  /\ eq_pc = "connect"
  /\ eq_exc = None
  /\ eq_out = None
  /\ conn = None
  /\ cursor = None
  /\ disk = Some(DiskOf(eq_in[1].tables, eq_in[1].rows))
  /\ SchemaIdle

engineOtherVars ==
  << dbVars, api_key, now, pc, inputVars, parsed_query, sql_query,
     safety_check, query_result, explanation, response, stages, gateway_calls,
     posts, execute_calls, checked_sql, safety_reply, executed_sql, env_ops,
     gw_in, gw_out, sc_in, sc_out, rule_out, ai_out, regVars, rerunVars,
     parserVars, schemaVars, eq_in >>

\* conn = self._get_connection(db_name); cursor = conn.cursor()
EqConnect ==
  /\ eq_pc = "connect"
  /\ IF eq_in[1].loaded
     THEN /\ conn' = Some(Connect(disk[1]))
          /\ cursor' = Some(NewCursor)
          /\ eq_pc' = "execute"
          /\ eq_out' = eq_out
     ELSE /\ eq_out' = Some(EqRaised("Database db1.sqlite not loaded"))
          /\ eq_pc' = "returned"
          /\ UNCHANGED << conn, cursor >>
  /\ UNCHANGED << engineOtherVars, eq_exc, disk >>

\* cursor.execute(query)
EqExecute ==
  /\ eq_pc = "execute"
  /\ LET st == SqlStatement(eq_in[1].query)
         err == ExecuteError(eq_in[1].query, disk[1], eq_in[1].fault)
         began == st.valid /\ st.table \in disk[1].tables
                    /\ st.verb = "delete"
     IN IF err # None
        THEN /\ eq_exc' = err
             /\ eq_pc' = "except"
             /\ conn' = Some([conn[1] EXCEPT !.in_transaction = began])
             /\ UNCHANGED << cursor, disk >>
        ELSE /\ eq_pc' = "branch"
             /\ eq_exc' = eq_exc
             /\ conn' = Some([conn[1] EXCEPT
                                !.in_transaction = began,
                                !.view = IF began THEN DiskAfter(st, @) ELSE @])
             /\ disk' = IF st.verb = "drop" THEN Some(DiskAfter(st, disk[1]))
                        ELSE disk
             /\ cursor' = Some([rowcount |-> Rowcount(st, disk[1].rows[st.table]),
                                rows |-> IF st.verb = "select"
                                         THEN Rows(disk[1].rows[st.table])
                                         ELSE << >>])
  /\ UNCHANGED << engineOtherVars, eq_out >>

\* the SELECT branch: cursor.fetchall() and the return statement
EqFetch ==
  /\ eq_pc = "branch"
  /\ StartsWith(Upper(Strip(eq_in[1].query)), "SELECT")
  /\ eq_out' = Some(EqReturned(QueryResult(TRUE, Some(cursor[1].rows),
                                           Some(Len(cursor[1].rows)), None,
                                           None)))
  /\ eq_pc' = "finally"
  /\ UNCHANGED << engineOtherVars, eq_exc, conn, cursor, disk >>

\* the other branch: conn.commit() and the return statement
EqCommit ==
  /\ eq_pc = "branch"
  /\ ~StartsWith(Upper(Strip(eq_in[1].query)), "SELECT")
  /\ IF eq_in[1].fault = "commit" /\ conn[1].in_transaction
     THEN /\ eq_exc' = Some("disk I/O error")
          /\ eq_pc' = "except"
          /\ UNCHANGED << conn, disk, eq_out >>
     ELSE /\ disk' = Some(Commit(conn[1], disk[1]))
          /\ conn' = Some([conn[1] EXCEPT !.in_transaction = FALSE,
                                          !.view = disk'[1],
                                          !.commits = @ + 1])
          /\ eq_out' = Some(EqReturned(QueryResult(TRUE, None, None,
                                                   Some(cursor[1].rowcount),
                                                   None)))
          /\ eq_pc' = "finally"
          /\ eq_exc' = eq_exc
  /\ UNCHANGED << engineOtherVars, cursor >>

\* except Exception: conn.rollback() and the return statement
EqRollback ==
  /\ eq_pc = "except"
  /\ conn' = Some([conn[1] EXCEPT !.in_transaction = FALSE, !.view = disk[1],
                                  !.rollbacks = @ + 1])
  /\ eq_out' = Some(EqReturned(QueryResult(FALSE, None, None, None, eq_exc)))
  /\ eq_exc' = None
  /\ eq_pc' = "finally"
  /\ UNCHANGED << engineOtherVars, cursor, disk >>

\* finally: conn.close(); a transaction still open is lost
EqClose ==
  /\ eq_pc = "finally"
  /\ conn' = Some([conn[1] EXCEPT !.open = FALSE, !.in_transaction = FALSE,
                                  !.view = disk[1],
                                  !.discarded = conn[1].in_transaction])
  /\ eq_pc' = "returned"
  /\ UNCHANGED << engineOtherVars, eq_exc, eq_out, cursor, disk >>

NextEngine ==
  \/ EqConnect
  \/ EqExecute
  \/ EqFetch
  \/ EqCommit
  \/ EqRollback
  \/ EqClose

SpecEngine == InitEngine /\ [][NextEngine]_vars

(***************************************************************************)
(* AIService.create_database_from_description alone.  processing_time of   *)
(* its result is not modelled.                                             *)
(***************************************************************************)
SchemaReplyTexts ==
  {MockSchemaDocument, SchemaReplyFenced, SchemaReplyEmptyObject,
   ReplyJsonList, SchemaReplyTruncated, SchemaReplyProse,
   SchemaReplyFencedProse, ""}

SchemaRemotes ==
  {RemoteOk(ChatReply(t)) : t \in SchemaReplyTexts}
    \cup {RemoteOk(NoChoicesReply)}
    \cup {RemoteFailure(k) : k \in RemoteFailureKinds}

Descriptions == {"a shop", "a library of books"}

DatabaseNames == {"shop.db", "library.db"}

CreateInput(description, database_name, key, remote, fs, reg) ==
  [description |-> description, database_name |-> database_name,
   api_key |-> key, remote |-> remote, files |-> fs, registry |-> reg]

InitSchema ==
  /\ cd_in \in {Some(CreateInput(d, n, k, r, fs, reg)) :
                  d \in Descriptions, n \in DatabaseNames, k \in ApiKeys,
                  r \in SchemaRemotes, fs \in {{}, {"shop.db"}},
                  reg \in {{}, {"shop.db"}}}
  /\ cd_in[1].registry \subseteq cd_in[1].files
  /\ registry = cd_in[1].registry
  /\ paths = cd_in[1].registry
  /\ files = cd_in[1].files
  /\ tables = [d \in DbIds |-> {"users"}]
  /\ api_key = cd_in[1].api_key
  /\ now = 0
  /\ RunIdle
  /\ env_ops = 0
  /\ gw_in = None
  /\ gw_out = None
  /\ sc_in = None
  /\ sc_out = None
  /\ rule_out = None
  /\ ai_out = None
  /\ RegistryIdle
  /\ RerunIdle
  /\ ParserIdle
  /\ EngineIdle
  /\ cd_out = None
  /\ schema_out = None

CreateResult(success, error, id, tbls, description) ==
  [success |-> success, error |-> error, id |-> id, tables |-> tbls,
   description |-> description]

\* create_database_from_description
CreateDatabaseFromDescription ==
  /\ cd_in # None
  /\ cd_out = None
  /\ LET description == cd_in[1].description
         database_name == cd_in[1].database_name
         schema_result ==
           GenerateDatabaseSchema(description,
             MakeApiRequest(api_key, DefaultModel, "",
                            SchemaMessages(description), cd_in[1].remote))
         created == CreateDatabase(database_name, schema_result.schema[1],
                                   files, registry)
     IN /\ schema_out' = Some(schema_result)
        /\ IF ~schema_result.success
           THEN /\ cd_out' = Some(CreateResult(FALSE, schema_result.error, "",
                                               << >>, description))
                /\ UNCHANGED << registry, paths, files >>
           ELSE /\ cd_out' =
                     Some(IF created.raised
                          THEN CreateResult(FALSE, created.exc, "", << >>,
                                            description)
                          ELSE CreateResult(TRUE, "", database_name,
                                            created.tables, description))
                /\ files' = created.files
                /\ registry' = created.registry
                /\ paths' = IF created.raised THEN paths
                            ELSE paths \cup {database_name}
  /\ UNCHANGED << tables, api_key, now, pc, inputVars, parsed_query, sql_query,
                  safety_check, query_result, explanation, response, stages,
                  gateway_calls, posts, execute_calls, checked_sql,
                  safety_reply, executed_sql, env_ops, gw_in, gw_out, sc_in,
                  sc_out, rule_out, ai_out, regVars, rerunVars, parserVars,
                  engineVars, cd_in >>

NextSchema == CreateDatabaseFromDescription

SpecSchema == InitSchema /\ [][NextSchema]_vars

(***************************************************************************)
(* Properties.                                                             *)
(***************************************************************************)
RejectedError == Some("Query rejected due to high security risk")

\* C1: once the combined verdict of a run is known, the run has returned the
\* rejection response (success=false, error "Query rejected due to high
\* security risk") without any call of execute exactly when the verdict has
\* safe=false and risk_level=high; with any other verdict the run is at
\* EXECUTE or has called execute, and its response is not the rejection.
C1_RejectIffUnsafeAndHigh ==
  safety_check # None =>
    LET v == safety_check[1] IN
    IF ~v.safe /\ v.risk_level = "high"
    THEN /\ pc = "returned"
         /\ ~response[1].success
         /\ response[1].error = RejectedError
         /\ execute_calls = 0
         /\ executed_sql = << >>
    ELSE /\ pc = "execute" \/ execute_calls = 1
         /\ response # None => response[1].error # RejectedError

C1_Witness ==
  /\ pc = "returned"
  /\ safety_check # None
  /\ ~safety_check[1].safe
  /\ safety_check[1].risk_level = "high"
  /\ response[1].error = RejectedError
  /\ execute_calls = 0

\* C2: whatever the model layer did (a verdict with safe true, false, null or
\* absent, an outright failure, or a reply that makes the combiner throw),
\* the combined verdict has safe=false whenever the rule layer has
\* safe=false, and every text containing DROP TABLE in any letter case gets
\* safe=false.
C2_RuleLayerVeto ==
  sc_out # None =>
    /\ ~RuleValidateQuerySafety(sc_in[1].sql_query).safe => ~sc_out[1].safe
    /\ sc_in[1].drop_table => ~sc_out[1].safe

C2_Witness ==
  /\ sc_out # None
  /\ sc_in[1].sql_query = "dRoP TaBlE users;"
  /\ sc_in[1].api_key # ""
  /\ sc_in[1].remote = RemoteOk(ChatReply(ReplySafeLow))
  /\ ~sc_out[1].safe
  /\ sc_out[1].risk_level = "low"

GatewayRemoteFailed ==
  /\ gw_in[1].api_key # ""
  /\ (gw_in[1].model # "" \/ gw_in[1].cfg_model # "")
  /\ gw_in[1].remote.kind \in RemoteFailureKinds

\* C3: _make_api_request never raises; when the remote call fails (status
\* other than 200, timeout, network error) it returns the mock reply chosen
\* by _get_mock_response.
C3_GatewayNeverRaises ==
  gw_out # None =>
    /\ ~gw_out[1].raised
    /\ GatewayRemoteFailed =>
         gw_out[1].reply = GetMockResponse(gw_in[1].messages)

GatewayUnconfigured ==
  \/ gw_in[1].api_key = ""
  \/ gw_in[1].model = "" /\ gw_in[1].cfg_model = ""

\* C4: without an API key, or without a resolved model name, the gateway
\* makes no remote call, does not raise, and returns a reply whose
\* choices[0].message.content is a non-empty string, for every message list.
C4_UnconfiguredGatewayMocks ==
  (gw_out # None /\ GatewayUnconfigured) =>
    /\ ~gw_out[1].raised
    /\ gw_out[1].posts = 0
    /\ gw_out[1].reply.shape = "chat"
    /\ gw_out[1].reply.content # ""

C4_Witness ==
  /\ gw_out # None
  /\ gw_in[1].api_key # ""
  /\ gw_in[1].model = ""
  /\ gw_in[1].cfg_model = ""
  /\ gw_in[1].remote.kind = "timeout"
  /\ \A i \in DOMAIN gw_in[1].messages : gw_in[1].messages[i].role # "user"
  /\ Len(gw_in[1].messages) > 0
  /\ gw_out[1].posts = 0
  /\ gw_out[1].reply.content = MockApology

RunPcs ==
  {"idle", "validate_db", "parse", "schema_fetch", "synthesize_sql",
   "safety_check", "execute", "explain", "respond", "returned"}

\* C5: a run never leaves the function by an exception: it is at one of its
\* stages or it has returned a response object; and a returned response
\* with success=false has its error set.
C5_AlwaysAResponse ==
  /\ pc \in RunPcs
  /\ pc = "returned" =>
       /\ response # None
       /\ ~response[1].success => response[1].error # None

C5_Witness ==
  /\ pc = "returned"
  /\ Len(stages) > 0
  /\ stages[Len(stages)] = Stage("EXECUTE", FALSE)
  /\ query_result = None
  /\ ~response[1].success
  /\ response[1].error = Some(NotLoadedError(database_id))

\* C6: when the engine rejected the synthesized SQL at EXECUTE, the response
\* that is returned has success=true and embeds the query result with
\* success=false and the engine's error text.
C6_ExecutionFailureIsData ==
  (pc = "returned" /\ query_result # None /\ ~query_result[1].success) =>
    /\ response[1].success
    /\ response[1].error = None
    /\ response[1].query_result = query_result
    /\ response[1].query_result[1].error # None

C6_Witness ==
  /\ pc = "returned"
  /\ query_result # None
  /\ ~query_result[1].success
  /\ query_result[1].error = Some("no such table: books")
  /\ response[1].success

\* C7: on the mock path (no API key) the prompt "show all records in books"
\* is synthesized to SELECT * FROM books; and when the table books does not
\* exist the response has success=true with query_result.success=false.
C7_MockBooksScenario ==
  (api_key = "" /\ prompt = "show all records in books" /\ sql_query # None) =>
    /\ sql_query = Some(MockBooksSql)
    /\ (pc = "returned" /\ query_result # None
          /\ "books" \notin tables[database_id]) =>
         /\ response[1].success
         /\ response[1].sql_query = Some(MockBooksSql)
         /\ ~response[1].query_result[1].success

StageOrder ==
  << "VALIDATE_DB", "PARSE", "SCHEMA_FETCH", "SYNTHESIZE_SQL", "SAFETY_CHECK",
     "EXECUTE", "EXPLAIN", "DONE" >>

StageIndex(name) == CHOOSE i \in DOMAIN StageOrder : StageOrder[i] = name

\* C8: the stages of a run are entered in the fixed order, each at most
\* once, starting at VALIDATE_DB and skipping nothing but EXPLAIN; after a
\* failed stage no later stage runs (a failed EXECUTE or EXPLAIN is followed
\* by DONE only); a failed VALIDATE_DB or SCHEMA_FETCH ends the run with no
\* gateway call and no execute call.
C8_StageOrder ==
  /\ \A i, j \in DOMAIN stages :
       i < j => /\ StageIndex(stages[i].stage) < StageIndex(stages[j].stage)
                /\ ~stages[i].ok => /\ stages[i].stage \in {"EXECUTE", "EXPLAIN"}
                                    /\ stages[j].stage = "DONE"
  /\ stages # << >> => stages[1].stage = "VALIDATE_DB"
  /\ \A i \in DOMAIN stages :
       i > 1 => \/ StageIndex(stages[i].stage) = StageIndex(stages[i - 1].stage) + 1
                \/ stages[i - 1].stage = "EXECUTE" /\ stages[i].stage = "DONE"
  /\ \A i \in DOMAIN stages :
       (stages[i].stage \in {"VALIDATE_DB", "SCHEMA_FETCH"} /\ ~stages[i].ok) =>
         /\ pc = "returned"
         /\ gateway_calls = 0
         /\ posts = 0
         /\ execute_calls = 0
         /\ executed_sql = << >>

C8_Witness ==
  /\ pc = "returned"
  /\ stages = << Stage("VALIDATE_DB", TRUE), Stage("PARSE", TRUE),
                 Stage("SCHEMA_FETCH", FALSE) >>
  /\ gateway_calls = 0
  /\ execute_calls = 0

\* C9: every failure exit of the pipeline produces a response with
\* success=false, error set and processing_time set to the elapsed time.
C9_FailureExitsCarryElapsedTime ==
  (pc = "returned" /\ ~response[1].success) =>
    /\ response[1].error # None
    /\ response[1].processing_time = Some(now - start_time)

\* C10: once PARSE has completed, the response of the run carries the parsed
\* query in parsed_info, and carries sql_query whenever SQL had been
\* synthesized.
C10_PartialProgressPreserved ==
  (pc = "returned" /\ parsed_query # None) =>
    /\ response[1].parsed_info = parsed_query
    /\ sql_query # None => response[1].sql_query = sql_query
\* the reply of the gateway to the safety request of the combiner call
ScGateway ==
  MakeApiRequest(sc_in[1].api_key, DefaultModel, "",
                 SafetyMessages(sc_in[1].sql_query), sc_in[1].remote)

ManualReviewRecommended == << "Manual review recommended" >>

ManualReviewRequired == << "Manual review required" >>

\* C11: when the model layer failed outright (success=false), the combined
\* verdict has safe equal to the rule layer's safe, risk_level=medium and
\* recommendations=["Manual review recommended"], whether the rule layer
\* found the SQL safe or unsafe.
C11_ModelLayerFailureFallsBackToRules ==
  (sc_out # None /\ ~ai_out[1].success) =>
    /\ sc_out[1].safe = rule_out[1].safe
    /\ sc_out[1].risk_level = "medium"
    /\ sc_out[1].recommendations = ManualReviewRecommended

\* the analysis of the model layer is a JSON object whose risk_level, when
\* present, is a value of RiskLevel and whose safe is not null
VerdictWellFormed(a) ==
  /\ a.kind = "dict"
  /\ a.risk_level \in RiskLevels \cup {"absent"}
  /\ a.safe # "null"

\* C12: when the model layer returned a well-formed verdict, the combined
\* verdict has the model's risk_level (medium when the field is absent), its
\* warnings are the rule-layer warning (present exactly when the rule layer
\* is unsafe) followed by the model's warnings in their order, and its
\* recommendations are the model's recommendations.
C12_CombinedFields ==
  (sc_out # None /\ ai_out[1].success /\ VerdictWellFormed(ai_out[1].analysis)) =>
    LET a == ai_out[1].analysis
        model_warnings == IF a.hasWarnings THEN a.warnings ELSE << >>
    IN /\ sc_out[1].risk_level =
            (IF a.risk_level = "absent" THEN "medium" ELSE a.risk_level)
       /\ rule_out[1].safe => sc_out[1].warnings = model_warnings
       /\ ~rule_out[1].safe =>
            sc_out[1].warnings = << rule_out[1].warning[1] >> \o model_warnings
       /\ sc_out[1].recommendations =
            (IF a.hasRecommendations THEN a.recommendations ELSE << >>)

C12_Witness ==
  /\ sc_out # None
  /\ sc_in[1].sql_query = "delete from users"
  /\ sc_in[1].remote = RemoteOk(ChatReply(ReplyUnsafeHigh))
  /\ sc_in[1].api_key # ""
  /\ sc_out[1].risk_level = "high"
  /\ sc_out[1].warnings =
       << RuleWarning("DELETE"), "Destructive statement" >>
  /\ sc_out[1].recommendations = << "Back up first" >>

\* a statement of the combiner's try block throws for these layer results:
\* .get on a JSON list, RiskLevel() of an unknown value, a verdict built
\* with safe=None or with warnings=[None]
CombinerThrows(basic, ai) ==
  IF ai.success
  THEN \/ ai.analysis.kind # "dict"
       \/ ai.analysis.risk_level \notin RiskLevels \cup {"absent"}
       \/ basic.safe /\ ai.analysis.safe = "null"
  ELSE basic.warning = None

\* C13: the combiner always returns a verdict (safe a boolean, risk_level a
\* value of RiskLevel); when a statement of its try block throws, the
\* verdict is safe=false, risk_level=high,
\* recommendations=["Manual review required"].
C13_CombinerNeverRaises ==
  sc_out # None =>
    /\ sc_out[1].safe \in BOOLEAN
    /\ sc_out[1].risk_level \in RiskLevels
    /\ CombinerThrows(rule_out[1], ai_out[1]) =>
         /\ ~sc_out[1].safe
         /\ sc_out[1].risk_level = "high"
         /\ sc_out[1].recommendations = ManualReviewRequired

C13_Witness ==
  /\ sc_out # None
  /\ sc_in[1].api_key # ""
  /\ sc_in[1].remote = RemoteOk(ChatReply(ReplyBadRisk))
  /\ sc_in[1].sql_query = "SELECT * FROM books;"
  /\ rule_out[1].safe
  /\ ~sc_out[1].safe
  /\ sc_out[1].risk_level = "high"
  /\ sc_out[1].recommendations = ManualReviewRequired

\* the gateway returned a content that json.loads rejects
ReplyNotJson ==
  /\ ~ScGateway.raised
  /\ ScGateway.reply.shape = "chat"
  /\ ~JsonLoads(Strip(ScGateway.reply.content)).ok

\* C14: when the reply to the safety request is not parseable as JSON, the
\* AI safety check returns success=true with an analysis whose safe is
\* false exactly when the upper-cased SQL contains DROP or DELETE, whose
\* risk_level is medium and whose warnings note the parse failure.
C14_UnparseableReplyFallback ==
  (ai_out # None /\ ReplyNotJson) =>
    LET u == Upper(sc_in[1].sql_query) IN
    /\ ai_out[1].success
    /\ ai_out[1].analysis.safe \in {"true", "false"}
    /\ ai_out[1].analysis.safe = "false" <=>
         (Contains(u, "DROP") \/ Contains(u, "DELETE"))
    /\ ai_out[1].analysis.risk_level = "medium"
    /\ ai_out[1].analysis.warnings = << "Could not parse AI safety analysis" >>

C14_Witness ==
  /\ ai_out # None
  /\ sc_in[1].api_key # ""
  /\ sc_in[1].remote = RemoteOk(ChatReply(ReplyProse))
  /\ sc_in[1].sql_query = "delete from users"
  /\ ai_out[1].success
  /\ ai_out[1].analysis.safe = "false"
  /\ ai_out[1].analysis.risk_level = "medium"

\* positions in the keyword list of the keywords contained in the text
KeywordHits(text) ==
  {k \in DOMAIN DangerousKeywords : Contains(text, DangerousKeywords[k])}

\* C15: the rule-based screener returns safe=false exactly when the
\* upper-cased SQL contains one of DROP, DELETE, TRUNCATE, ALTER, CREATE,
\* INSERT, UPDATE at any position, and then its warning names the first
\* keyword, in that order, that is contained; otherwise there is no warning.
C15_RuleScreener ==
  rule_out # None =>
    LET hits == KeywordHits(Upper(sc_in[1].sql_query)) IN
    /\ rule_out[1].safe <=> hits = {}
    /\ hits = {} => rule_out[1].warning = None
    /\ hits # {} =>
         rule_out[1].warning =
           Some(RuleWarning(DangerousKeywords[
                  CHOOSE k \in hits : \A j \in hits : k <= j]))

C15_Witness ==
  /\ rule_out # None
  /\ sc_in[1].sql_query = "UPDATE users SET dropped = 1"
  /\ ~rule_out[1].safe
  /\ rule_out[1].warning = Some(RuleWarning("DROP"))

\* content of the last user-role message of the list, "" when there is none
RECURSIVE LastUserMessage(_, _)
LastUserMessage(messages, i) ==
  IF i < 1 THEN ""
  ELSE IF messages[i].role = "user" THEN messages[i].content
  ELSE LastUserMessage(messages, i - 1)

ExplainStages == {i \in DOMAIN stages : stages[i].stage = "EXPLAIN"}

\* C17: the EXPLAIN stage is entered, and the model called a third time,
\* only when an explanation was requested, execution succeeded and returned
\* at least one row; when the explanation call fails the run still returns
\* success=true with explanation null.
C17_ExplainGating ==
  /\ (pc = "explain" \/ ExplainStages # {} \/ gateway_calls > 2) =>
       /\ include_explanation
       /\ query_result # None
       /\ query_result[1].success
       /\ query_result[1].data # None
       /\ Len(query_result[1].data[1]) >= 1
  /\ (pc = "returned" /\ \E i \in ExplainStages : ~stages[i].ok) =>
       /\ response[1].success
       /\ response[1].explanation = None
       /\ response[1].error = None

C17_Witness ==
  /\ pc = "returned"
  /\ \E i \in ExplainStages : ~stages[i].ok
  /\ gateway_calls = 3
  /\ response[1].success
  /\ response[1].explanation = None
\* C18: every registration, lookup and removal on the shared registry and
\* on a manager's database_paths is made by a thread that holds the lock at
\* that moment.
C18_RegistryAccessUnderLock ==
  last_access # None => last_access[1].held

ReadThenActOps == {"execute", "schema"}

\* C19: an execute_query or get_database_schema either acts on a database
\* that is still registered when its connection is opened, or reports that
\* the database is not loaded: it never ends in a KeyError on the registry
\* and never runs its statement on a database closed since the check.
C19_RecheckAtUse ==
  \A t \in Threads :
    (thr[t].pc = "idle" /\ thr[t].op \in ReadThenActOps) =>
      thr[t].result \in {"ran", "not_loaded"}

AllIdle == \A t \in Threads : thr[t].pc = "idle"

\* C20: after any sequence of load, create, close, list and lookup
\* operations (and queries) issued one after the other through any
\* instance, the registry holds exactly the identifiers added by a load or
\* create and not closed since.
C20_RegistryLifecycle ==
  (AllIdle /\ ~overlapped) => registry = live
\* C21: one call of the gateway makes at most one remote request; after a
\* remote failure (timeout, network error, status other than 200,
\* undecodable body) it has made exactly one request, has not raised, and
\* has returned the mock reply.
C21_AtMostOneRemoteRequest ==
  gw_out # None =>
    /\ gw_out[1].posts <= 1
    /\ GatewayRemoteFailed =>
         /\ gw_out[1].posts = 1
         /\ ~gw_out[1].raised
         /\ gw_out[1].mocked
ResponseRows(r) ==
  IF r.query_result = None THEN None ELSE r.query_result[1].data

SafetyReplyNotJson ==
  /\ ~safety_reply[1].raised
  /\ safety_reply[1].reply.shape = "chat"
  /\ ~JsonLoads(Strip(safety_reply[1].reply.content)).ok

\* C29: when the reply to the run's safety request is not valid JSON, or the
\* gateway answered it from its mock path, the combined verdict has
\* risk_level=medium, the run does not take the rejection exit and goes on
\* to EXECUTE, also for SQL the rule layer flags as unsafe.
C29_UnparseableReplyNeverRejects ==
  (safety_check # None /\ (SafetyReplyNotJson \/ safety_reply[1].mocked)) =>
    /\ safety_check[1].risk_level = "medium"
    /\ pc = "execute" \/ execute_calls = 1
    /\ response # None => response[1].error # RejectedError

C29_Witness ==
  /\ safety_check # None
  /\ safety_reply[1].mocked
  /\ SafetyReplyNotJson
  /\ ~RuleValidateQuerySafety(checked_sql[1]).safe
  /\ ~safety_check[1].safe
  /\ safety_check[1].risk_level = "medium"
  /\ executed_sql = << "drop table users;" >>

\* C30: the engine's execute is called at most once per run, and the SQL it
\* receives is the string that was passed to the safety check, the run's
\* sql_query, and the sql_query of the response.
C30_SqlUnchangedBetweenCheckAndExecute ==
  /\ execute_calls <= 1
  /\ Len(executed_sql) <= 1
  /\ executed_sql # << >> =>
       /\ checked_sql = Some(executed_sql[1])
       /\ sql_query = Some(executed_sql[1])
       /\ pc = "returned" => response[1].sql_query = Some(executed_sql[1])

C30_Witness ==
  /\ pc = "returned"
  /\ executed_sql = << "DELETE FROM users;" >>
  /\ checked_sql = Some("DELETE FROM users;")
  /\ response[1].success
  /\ response[1].sql_query = Some("DELETE FROM users;")

\* the signal categories a parsed result shows
Categories(r) ==
  (IF r.query_type # "unknown" THEN {"type"} ELSE {})
    \cup (IF r.tables # {} THEN {"table"} ELSE {})
    \cup (IF r.columns # {} THEN {"column"} ELSE {})
    \cup (IF r.filters # << >> THEN {"filter"} ELSE {})
    \cup (IF r.aggregations # << >> THEN {"aggregation"} ELSE {})
    \cup (IF r.sorting # None THEN {"sort"} ELSE {})

\* C23, as stated: the confidence of every parsed text lies between 0 and 1
\* (0 and 100 hundredths), and a text that matches more signal categories
\* than another never has the lower confidence of the two.
C23_ConfidenceMonotoneInCount ==
  Len(pq_out) = 2 =>
    /\ \A n \in 1..2 : pq_out[n].confidence \in 0..100
    /\ Cardinality(Categories(pq_out[1])) > Cardinality(Categories(pq_out[2]))
         => pq_out[1].confidence >= pq_out[2].confidence

\* C23, amended: the confidence of every parsed text lies between 0 and 1,
\* and a text that matches every signal category another text matches never
\* has the lower confidence of the two.
C23_ConfidenceMonotoneInCategories ==
  Len(pq_out) = 2 =>
    /\ \A n \in 1..2 : pq_out[n].confidence \in 0..100
    /\ Categories(pq_out[2]) \subseteq Categories(pq_out[1])
         => pq_out[1].confidence >= pq_out[2].confidence

\* two texts have been parsed, the first matches the categories of the
\* second and sorting besides
C23_Witness ==
  /\ Len(pq_out) = 2
  /\ Categories(pq_out[1]) = Categories(pq_out[2]) \cup {"sort"}
  /\ pq_out[2].sorting = None
  /\ pq_out[2].confidence > 0
  /\ pq_out[1].confidence > pq_out[2].confidence

\* the text as the extraction methods receive it
QueryLower(n) == Strip(Lower(pq_in[1][n]))

\* C24: the query type of a parsed text is that of the first keyword family
\* that matches, in the order count, select, insert, update, delete, and
\* unknown when none matches; and "delete record from items where id = 5"
\* is parsed as a delete on a table "items" with a filter on column "id".
C24_FirstFamilyWinsAndDeleteExample ==
  \A n \in DOMAIN pq_out :
    LET q == QueryLower(n)
        r == pq_out[n]
        families == << CountKeywords(q), SelectKeywords(q), InsertKeywords(q),
                       UpdateKeywords(q), DeleteKeywords(q) >>
        types == << "count", "select", "insert", "update", "delete" >>
        matching == {k \in 1..5 : families[k]}
    IN /\ r.query_type = IF matching = {} THEN "unknown"
                         ELSE types[FirstOf(matching)]
       /\ pq_in[1][n] = "delete record from items where id = 5" =>
            /\ r.query_type = "delete"
            /\ "items" \in r.tables
            /\ \E k \in DOMAIN r.filters : r.filters[k].column = "id"

\* the words that follow "table" or "from", or follow "in" or "on"
\* (optionally before "table"), in a text
FollowingWords(q) == {m.groups[2] : m \in SeqRange(TableIndicatorMatches(q))}

\* C25: the tables of a parsed text are the words that follow "table",
\* "from", "in" or "on" in it together with the gazetteer nouns it contains;
\* a text containing "from books" has "books" among its tables.
C25_TablesAreFollowingWordsAndGazetteer ==
  \A n \in DOMAIN pq_out :
    /\ pq_out[n].tables =
         FollowingWords(QueryLower(n))
           \cup {w \in CommonTableWords : Contains(QueryLower(n), w)}
    /\ Contains(QueryLower(n), "from books") => "books" \in pq_out[n].tables

\* C26: every aggregation of a parsed text has a normalised function
\* (count, sum, avg, max or min) and a word of the text as column; "how many
\* orders" yields the one aggregation count of orders.
C26_AggregationsNormalised ==
  \A n \in DOMAIN pq_out :
    /\ \A k \in DOMAIN pq_out[n].aggregations :
         /\ pq_out[n].aggregations[k].function
              \in {"count", "sum", "avg", "max", "min"}
         /\ Contains(QueryLower(n), pq_out[n].aggregations[k].column)
    /\ pq_in[1][n] = "how many orders" =>
         pq_out[n].aggregations
           = << [function |-> "count", column |-> "orders"] >>

\* C27: a call of execute_query that opened its connection returns a result
\* and does not raise, with the connection closed; when it reports success
\* the database file holds the effect of the statement, no transaction was
\* left open to be lost at close, and a statement other than a SELECT was
\* committed and reports the cursor's rowcount as rows affected; when the
\* engine raised it reports success=false with the error text, after a
\* rollback that leaves the file as it was.
C27_CommitOrRollbackThenClose ==
  (eq_pc = "returned" /\ conn # None) =>
    LET result == eq_out[1].result
        st == SqlStatement(eq_in[1].query)
        before == DiskOf(eq_in[1].tables, eq_in[1].rows)
    IN /\ ~eq_out[1].raised
       /\ ~conn[1].open
       /\ ~conn[1].discarded
       /\ result.success =>
            /\ disk[1] = DiskAfter(st, before)
            /\ conn[1].rollbacks = 0
            /\ st.verb # "select" =>
                 /\ conn[1].commits = 1
                 /\ result.rows_affected = Some(cursor[1].rowcount)
       /\ ~result.success =>
            /\ result.error # None
            /\ conn[1].rollbacks = 1
            /\ disk[1] = before

\* a DELETE that changed rows has been committed and the call has returned
C27_Witness ==
  /\ eq_pc = "returned"
  /\ conn # None
  /\ eq_out[1].result.success
  /\ SqlStatement(eq_in[1].query).verb = "delete"
  /\ eq_in[1].rows > 0
  /\ disk[1].rows["users"] = 0

\* the model was reached and what it replied is not JSON, with or without
\* markdown fences around it
SchemaReplyNotJson ==
  /\ cd_in # None
  /\ cd_in[1].api_key # ""
  /\ cd_in[1].remote.kind = "ok"
  /\ cd_in[1].remote.body.shape = "chat"
  /\ cd_in[1].remote.body.content
       \in {SchemaReplyTruncated, SchemaReplyProse, SchemaReplyFencedProse, ""}

====
